---------------------------- MODULE Spec2Model ----------------------------
(***************************************************************************)
(* Model of the resume scoring engine (src/src/nlp_engine): the taxonomy   *)
(* cache of config_loader.py, the signal extractors of parser.py and the   *)
(* metric calculators, composite scorer and legacy adapter of analyzer.py. *)
(*                                                                         *)
(* Text is a sequence of one-character strings.  Numbers that Python keeps *)
(* as floats are exact rationals <<numerator, denominator>> in lowest      *)
(* terms; floating-point rounding is not modelled.                         *)
(*                                                                         *)
(* Specifications: Spec (a client of the engine serving one request),      *)
(* SpecEdge (the same client, requests of blank and bullet-only resumes    *)
(* and blank job descriptions), SpecLoader (a client of the ConfigLoader   *)
(* while the files change on disk), SpecWeb (the handler of POST /analyze  *)
(* of src/src/web_app/app.py), SpecThreads (concurrent first access),      *)
(* SpecGaps (the client, requests about a larger skills taxonomy) and      *)
(* SpecReload (threads calling one ConfigLoader during reload_config).     *)
(***************************************************************************)
EXTENDS Integers, Sequences, FiniteSets, TLC

(***************************************************************************)
(* Characters and the str methods the engine uses.                         *)
(***************************************************************************)
NL == "\n"
SP == " "
\* None is the empty tuple; a cache attribute that is set holds Some(value)
None == <<>>
Some(v) == <<v>>

UpperChars == <<"A","B","C","D","E","F","G","H","I","J","K","L","M",
                "N","O","P","Q","R","S","T","U","V","W","X","Y","Z">>
LowerChars == <<"a","b","c","d","e","f","g","h","i","j","k","l","m",
                "n","o","p","q","r","s","t","u","v","w","x","y","z">>
UpperSet == {UpperChars[i] : i \in DOMAIN UpperChars}
LowerSet == {LowerChars[i] : i \in DOMAIN LowerChars}
DigitSet == {"0","1","2","3","4","5","6","7","8","9"}

IsSpace(c) == c \in {SP, NL, "\t"}
IsDigit(c) == c \in DigitSet
IsAlpha(c) == c \in UpperSet \cup LowerSet
\* \w of the re module
IsWordChar(c) == IsAlpha(c) \/ IsDigit(c) \/ c = "_"

\* str.lower(), one character
LowerOfUpper == [i \in DOMAIN UpperChars |-> LowerChars[i]]
UpperIndex == [c \in UpperSet |-> CHOOSE i \in DOMAIN UpperChars : UpperChars[i] = c]
LowerChar(c) == IF c \in UpperSet THEN LowerOfUpper[UpperIndex[c]] ELSE c

\* str.lower()
Lower(s) == [i \in 1..Len(s) |-> LowerChar(s[i])]

\* index of the first character of s at or after i that satisfies the test,
\* Len(s)+1 when there is none
FirstSpaceFrom(s, i) ==
    IF \E k \in i..Len(s) : IsSpace(s[k])
    THEN CHOOSE k \in i..Len(s) : IsSpace(s[k]) /\ \A j \in i..(k-1) : ~IsSpace(s[j])
    ELSE Len(s) + 1

FirstNewlineFrom(s, i) ==
    IF \E k \in i..Len(s) : s[k] = NL
    THEN CHOOSE k \in i..Len(s) : s[k] = NL /\ \A j \in i..(k-1) : s[j] # NL
    ELSE Len(s) + 1

\* str.split('\n'): the segments between newlines, empty ones kept
RECURSIVE SplitLinesFrom(_, _)
SplitLinesFrom(s, i) ==
    LET k == FirstNewlineFrom(s, i)
    IN  IF k > Len(s) THEN <<SubSeq(s, i, Len(s))>>
        ELSE <<SubSeq(s, i, k - 1)>> \o SplitLinesFrom(s, k + 1)

SplitLines(s) == SplitLinesFrom(s, 1)

\* str.split(): the maximal runs of non-whitespace characters
RECURSIVE SplitWordsFrom(_, _)
SplitWordsFrom(s, i) ==
    IF i > Len(s) THEN <<>>
    ELSE IF IsSpace(s[i]) THEN SplitWordsFrom(s, i + 1)
    ELSE LET k == FirstSpaceFrom(s, i)
         IN  <<SubSeq(s, i, k - 1)>> \o SplitWordsFrom(s, k)

\* str.split(' '): the pieces between single spaces, empty ones included
SplitWordsOnSpace(s) ==
    LET IsCut(i) == s[i] = SP
        pos == <<0>> \o SelectSeq([i \in 1..Len(s) |-> i], IsCut) \o <<Len(s) + 1>>
    IN  [k \in 1..(Len(pos) - 1) |-> SubSeq(s, pos[k] + 1, pos[k + 1] - 1)]

SplitWords(s) == SplitWordsFrom(s, 1)

\* str.strip()
Strip(s) ==
    IF \A i \in 1..Len(s) : IsSpace(s[i]) THEN <<>>
    ELSE LET a == CHOOSE i \in 1..Len(s) : ~IsSpace(s[i]) /\ \A j \in 1..(i-1) : IsSpace(s[j])
             b == CHOOSE i \in 1..Len(s) : ~IsSpace(s[i]) /\ \A j \in (i+1)..Len(s) : IsSpace(s[j])
         IN  SubSeq(s, a, b)

\* [line.strip() for line in text.split('\n') if line.strip()]
NonEmptyLines(text) ==
    LET IsNonEmpty(l) == l # <<>>
        segs == SplitLines(text)
    IN  SelectSeq([i \in 1..Len(segs) |-> Strip(segs[i])], IsNonEmpty)

\* re.sub(r'[^\w]', '', word)
CleanWord(word) == SelectSeq(word, IsWordChar)

\* x in s, for strings: x occurs as a substring of s
IsSubstring(x, s) ==
    \E i \in 1..(Len(s) - Len(x) + 1) : \A k \in 1..Len(x) : s[i + k - 1] = x[k]

\* the elements of a list
Range(f) == {f[i] : i \in DOMAIN f}

(***************************************************************************)
(* Exact rational arithmetic for the float-valued scores.                  *)
(***************************************************************************)
RECURSIVE Gcd(_, _)
Gcd(a, b) == IF b = 0 THEN a ELSE Gcd(b, a % b)

Abs(x) == IF x < 0 THEN -x ELSE x

\* the rational n/d (d # 0) in lowest terms with a positive denominator
Rat(n, d) ==
    LET g == Gcd(Abs(n), Abs(d))
        sgn == IF d < 0 THEN -1 ELSE 1
    IN  <<(sgn * n) \div g, (sgn * d) \div g>>

RInt(n) == <<n, 1>>
RAdd(x, y) == Rat(x[1] * y[2] + y[1] * x[2], x[2] * y[2])
RSub(x, y) == Rat(x[1] * y[2] - y[1] * x[2], x[2] * y[2])
RMul(x, y) == Rat(x[1] * y[1], x[2] * y[2])
RDiv(x, y) == Rat(x[1] * y[2], x[2] * y[1])
RLe(x, y) == x[1] * y[2] <= y[1] * x[2]
RLt(x, y) == x[1] * y[2] < y[1] * x[2]
RMin(x, y) == IF RLe(x, y) THEN x ELSE y
RMax(x, y) == IF RLe(x, y) THEN y ELSE x

\* max(a, b) and min(a, b) on integers
Max(a, b) == IF a >= b THEN a ELSE b
Min(a, b) == IF a <= b THEN a ELSE b

(***************************************************************************)
(* The re module, as far as analyzer.py uses it: a backtracking matcher    *)
(* over pattern trees.  Ends(p, s, i) lists, in the order the matcher      *)
(* tries them, the positions at which a match of p that starts at position *)
(* i of s can end (the index of the character after the match).            *)
(***************************************************************************)
Chr(S) == [op |-> "set", chars |-> S, neg |-> FALSE]
NotChr(S) == [op |-> "set", chars |-> S, neg |-> TRUE]
Lit(str) == [op |-> "lit", str |-> str, icase |-> FALSE]
LitI(str) == [op |-> "lit", str |-> str, icase |-> TRUE]
Cat(parts) == [op |-> "seq", parts |-> parts]
Alt(parts) == [op |-> "alt", parts |-> parts]
\* greedy repetition, max = -1 for no upper limit
Rep(inner, min, max) == [op |-> "rep", inner |-> inner, min |-> min, max |-> max]
Star(inner) == Rep(inner, 0, -1)
Plus(inner) == Rep(inner, 1, -1)
Opt(inner) == Rep(inner, 0, 1)
WordBoundary == [op |-> "wb"]
LineStart == [op |-> "bol"]

WordAt(s, i) == i >= 1 /\ i <= Len(s) /\ IsWordChar(s[i])

RECURSIVE Ends(_, _, _), SeqEnds(_, _, _, _), SeqEndsAll(_, _, _, _),
          AltEnds(_, _, _, _), RepEnds(_, _, _, _), RepEndsAll(_, _, _, _)

Ends(p, s, i) ==
    CASE p.op = "set" ->
           IF i <= Len(s) /\ ((s[i] \in p.chars) # p.neg) THEN <<i + 1>> ELSE <<>>
      [] p.op = "lit" ->
           IF i + Len(p.str) - 1 <= Len(s)
              /\ \A k \in 1..Len(p.str) :
                    IF p.icase THEN LowerChar(s[i + k - 1]) = LowerChar(p.str[k])
                    ELSE s[i + k - 1] = p.str[k]
           THEN <<i + Len(p.str)>> ELSE <<>>
      [] p.op = "wb" -> IF WordAt(s, i - 1) # WordAt(s, i) THEN <<i>> ELSE <<>>
      [] p.op = "bol" -> IF i = 1 \/ s[i - 1] = NL THEN <<i>> ELSE <<>>
      [] p.op = "seq" -> SeqEnds(p.parts, 1, s, i)
      [] p.op = "alt" -> AltEnds(p.parts, 1, s, i)
      [] p.op = "rep" -> RepEnds(p, s, i, 0)

\* parts[k..] matched one after the other from i
SeqEnds(parts, k, s, i) ==
    IF k > Len(parts) THEN <<i>>
    ELSE SeqEndsAll(parts, k + 1, s, Ends(parts[k], s, i))

\* the rest of a sequence continued from each end of its first part
SeqEndsAll(parts, k, s, ends) ==
    IF ends = <<>> THEN <<>>
    ELSE SeqEnds(parts, k, s, Head(ends)) \o SeqEndsAll(parts, k, s, Tail(ends))

\* the alternatives from the k-th on, the earlier one first
AltEnds(parts, k, s, i) ==
    IF k > Len(parts) THEN <<>>
    ELSE Ends(parts[k], s, i) \o AltEnds(parts, k + 1, s, i)

\* greedy: one more repetition first, then stopping here
RepEnds(p, s, i, n) ==
    (IF p.max = -1 \/ n < p.max
     THEN RepEndsAll(p, s, SelectSeq(Ends(p.inner, s, i), LAMBDA e : e > i), n + 1)
     ELSE <<>>)
    \o (IF n >= p.min THEN <<i>> ELSE <<>>)

RepEndsAll(p, s, ends, n) ==
    IF ends = <<>> THEN <<>>
    ELSE RepEnds(p, s, Head(ends), n) \o RepEndsAll(p, s, Tail(ends), n)

\* re.findall(p, s) for a pattern without groups: the matched substrings,
\* leftmost first, not overlapping.  starts are the positions at which some
\* match begins.
RECURSIVE FindAllFrom(_, _, _, _)
FindAllFrom(p, s, starts, i) ==
    LET rest == {k \in starts : k >= i}
    IN  IF rest = {} THEN <<>>
        ELSE LET k == CHOOSE a \in rest : \A b \in rest : a <= b
                 e == Head(Ends(p, s, k))
             IN  <<SubSeq(s, k, e - 1)>>
                 \o FindAllFrom(p, s, starts, IF e > k THEN e ELSE k + 1)

FindAll(p, s) == FindAllFrom(p, s, {k \in 1..Len(s) : Ends(p, s, k) # <<>>}, 1)

\* bool(re.search(p, s))
Search(p, s) == \E i \in 1..Len(s) : Ends(p, s, i) # <<>>

(***************************************************************************)
(* analyzer.py: the patterns.                                              *)
(***************************************************************************)
\* a string literal as a sequence of characters
Chars(str) == [i \in 1..Len(str) |-> SubSeq(str, i, i)]

\* the character U+2022 (the bullet), which is no word character
Bullet == "U+2022"
SpaceSet == {SP, NL, "\t"}
Digit == Chr(DigitSet)
AnyOf(strs) == Alt([i \in 1..Len(strs) |-> Lit(Chars(strs[i]))])
AnyOfI(strs) == Alt([i \in 1..Len(strs) |-> LitI(Chars(strs[i]))])

\* r'\b\d+(?:\.\d+)?(?:%|K|M|B)?\b|\$\d+(?:,\d{3})*(?:\.\d{2})?[KMB]?'
QuantifiablePattern ==
    Alt(<<Cat(<<WordBoundary, Plus(Digit), Opt(Cat(<<Lit(<<".">>), Plus(Digit)>>)),
                Opt(AnyOf(<<"%", "K", "M", "B">>)), WordBoundary>>),
          Cat(<<Lit(<<"$">>), Plus(Digit), Star(Cat(<<Lit(<<",">>), Rep(Digit, 3, 3)>>)),
                Opt(Cat(<<Lit(<<".">>), Rep(Digit, 2, 2)>>)), Opt(Chr({"K", "M", "B"}))>>)>>)

\* r'\b(?:led|managed|supervised|directed|mentored|coached|guided|spearheaded)\b', re.IGNORECASE
LeadershipPattern ==
    Cat(<<WordBoundary,
          AnyOfI(<<"led", "managed", "supervised", "directed", "mentored", "coached",
                   "guided", "spearheaded">>),
          WordBoundary>>)

\* r'\b(?:increased|decreased|improved|reduced|achieved|delivered|generated|saved|optimized)\b', re.IGNORECASE
OutcomePattern ==
    Cat(<<WordBoundary,
          AnyOfI(<<"increased", "decreased", "improved", "reduced", "achieved", "delivered",
                   "generated", "saved", "optimized">>),
          WordBoundary>>)

\* r'^(?:EXPERIENCE|EDUCATION|SKILLS|PROJECTS|SUMMARY|OBJECTIVE|CONTACT)', re.MULTILINE | re.IGNORECASE
SectionPattern ==
    Cat(<<LineStart,
          AnyOfI(<<"EXPERIENCE", "EDUCATION", "SKILLS", "PROJECTS", "SUMMARY", "OBJECTIVE",
                   "CONTACT">>)>>)

\* r'\b[A-Za-z0-9._%+-]+@[A-Za-z0-9.-]+\.[A-Z|a-z]{2,}\b'
EmailPattern ==
    Cat(<<WordBoundary,
          Plus(Chr(UpperSet \cup LowerSet \cup DigitSet \cup {".", "_", "%", "+", "-"})),
          Lit(<<"@">>),
          Plus(Chr(UpperSet \cup LowerSet \cup DigitSet \cup {".", "-"})),
          Lit(<<".">>),
          Rep(Chr(UpperSet \cup LowerSet \cup {"|"}), 2, -1),
          WordBoundary>>)

\* r'\(?\d{2,3}\)?[-.\s]?\d{5,}[-.\s]?\d{5,}'
PhonePattern ==
    Cat(<<Opt(Lit(<<"(">>)), Rep(Digit, 2, 3), Opt(Lit(<<")">>)),
          Opt(Chr({"-", "."} \cup SpaceSet)), Rep(Digit, 5, -1),
          Opt(Chr({"-", "."} \cup SpaceSet)), Rep(Digit, 5, -1)>>)

\* r'^[\s]*[U+2022\-\*]\s', re.MULTILINE
BulletPattern ==
    Cat(<<LineStart, Star(Chr(SpaceSet)), Chr({Bullet, "-", "*"}), Chr(SpaceSet)>>)

\* r'\b(?:[A-Z]{2,}|[A-Z][a-z]+(?:[A-Z][a-z]+)+)\b'
PrecisionPattern ==
    Cat(<<WordBoundary,
          Alt(<<Rep(Chr(UpperSet), 2, -1),
                Cat(<<Chr(UpperSet), Plus(Chr(LowerSet)),
                      Plus(Cat(<<Chr(UpperSet), Plus(Chr(LowerSet))>>))>>)>>),
          WordBoundary>>)

\* r'\b(?:API|SDK|CI/CD|DevOps|ML|AI|database|framework|algorithm)\b', re.IGNORECASE
DomainTermPattern ==
    Cat(<<WordBoundary,
          AnyOfI(<<"API", "SDK", "CI/CD", "DevOps", "ML", "AI", "database", "framework",
                   "algorithm">>),
          WordBoundary>>)

\* r'\b[A-Za-z-]+\b'
JdWordPattern ==
    Cat(<<WordBoundary, Plus(Chr(UpperSet \cup LowerSet \cup {"-"})), WordBoundary>>)

(***************************************************************************)
(* The inputs: configuration files, resume texts, job descriptions and the *)
(* collaborators' answers.                                                 *)
(***************************************************************************)
WordList(strs) == [islist |-> TRUE, verbs |-> [i \in 1..Len(strs) |-> Chars(strs[i])]]

\* a well-formed action_verbs.yaml
VerbsStandard ==
    [kind |-> "data",
     data |-> [impact_verbs |-> WordList(<<"led", "managed">>),
               build_verbs |-> WordList(<<"developed", "built">>),
               support_verbs |-> WordList(<<"assisted", "helped">>)]]

\* well-formed, with one verb listed under two tiers and a fourth category
VerbsOverlapping ==
    [kind |-> "data",
     data |-> [impact_verbs |-> WordList(<<"led", "managed">>),
               build_verbs |-> WordList(<<"developed", "managed">>),
               support_verbs |-> WordList(<<"assisted">>),
               other_verbs |-> WordList(<<"the">>)]]

\* a required category is absent
VerbsIncomplete ==
    [kind |-> "data",
     data |-> [impact_verbs |-> WordList(<<"led", "managed">>),
               build_verbs |-> WordList(<<"developed", "built">>)]]

MissingFile == [kind |-> "missing", data |-> <<>>]
UnparsableFile == [kind |-> "badyaml", data |-> <<>>]

Skill(name, synonyms) ==
    [name |-> Chars(name), synonyms |-> [i \in 1..Len(synonyms) |-> Chars(synonyms[i])]]

SkillsStandard ==
    [kind |-> "data",
     data |-> << <<Skill("Python", <<"py">>), Skill("SQL", <<>>)>>,
                 <<Skill("React", <<"reactjs">>)>> >>]

\* the environments of a process: its configuration files and the iteration
\* order of its sets of strings
Environments ==
    {[verbs |-> VerbsStandard, skills |-> SkillsStandard, order |-> "asc"],
     [verbs |-> VerbsOverlapping, skills |-> SkillsStandard, order |-> "desc"],
     [verbs |-> VerbsIncomplete, skills |-> SkillsStandard, order |-> "asc"],
     [verbs |-> MissingFile, skills |-> MissingFile, order |-> "asc"],
     [verbs |-> UnparsableFile, skills |-> SkillsStandard, order |-> "desc"]}

\* the lines resumes are made of
SampleLines ==
    << <<Bullet>> \o Chars(" Led the team to success"),
       Chars("- Managed, developed 5 APIs in Python, saved $50K."),
       Chars("SKILLS: SQL, assisted a@b.io") >>

\* the longest resume, in lines
MaxLines == 2

RECURSIVE JoinLines(_)
JoinLines(ls) ==
    IF ls = <<>> THEN <<>>
    ELSE IF Len(ls) = 1 THEN ls[1]
    ELSE ls[1] \o <<NL>> \o JoinLines(Tail(ls))

\* the resumes: up to MaxLines of the sample lines, in their order, joined by
\* newlines
ResumeTexts ==
    UNION {{JoinLines(c) : c \in {[i \in 1..n |-> SampleLines[d[i]]] :
                                   d \in {e \in [1..n -> DOMAIN SampleLines] :
                                            \A i \in 1..(n-1) : e[i] < e[i+1]}}} :
             n \in 0..MaxLines}

\* the job descriptions that name known skills
JobPythonSql == Some(Chars("Python and SQL required, React a plus"))
JobSqlApi == Some(Chars("SQL database API"))

\* the job descriptions: absent, empty, and the two above
JobDescriptions == {None, Some(<<>>), JobPythonSql, JobSqlApi}

\* the (job description, cosine similarity) pairs of the requests, the
\* similarity in [-1, 1]; without a job description the embedding
\* collaborator is not asked
JobRequests ==
    {<<None, RInt(0)>>, <<Some(<<>>), RInt(0)>>,
     <<JobPythonSql, Rat(-1, 1)>>, <<JobPythonSql, Rat(1, 200)>>,
     <<JobSqlApi, Rat(-1, 4)>>, <<JobSqlApi, Rat(1, 1)>>}

\* the documents the nlp pipeline answers with
Docs ==
    {[sents |-> 0, sent_words |-> 0, alpha |-> 0, complex |-> 0],
     [sents |-> 2, sent_words |-> 37, alpha |-> 18, complex |-> 4],
     [sents |-> 1, sent_words |-> 60, alpha |-> 50, complex |-> 50]}

\* the most bullet lines of a resume
MaxBullets == 21

\* the k-th bullet line: the three bullet characters in turn, every second
\* line indented
BulletLine(k) ==
    (IF k % 2 = 0 THEN <<SP, SP>> ELSE <<>>) \o <<(<<"-", "*", Bullet>>)[(k % 3) + 1], SP, "a">>

\* the resume of b bullet lines
BulletText(b) == JoinLines([k \in 1..b |-> BulletLine(k)])

\* the resumes without a non-empty line
BlankTexts == {<<>>, <<SP>>, <<SP, NL, "\t", NL>>}

\* the resumes of the edge cases: blank ones and those of bullet lines only
EdgeTexts == BlankTexts \cup {BulletText(b) : b \in 0..MaxBullets}

\* the job descriptions of whitespace only
JobSpaces == Some(<<SP, SP>>)
JobBlankLines == Some(<<NL, "\t", NL>>)

\* the (job description, cosine similarity) pairs of the edge cases
EdgeJobRequests ==
    {<<None, RInt(0)>>, <<Some(<<>>), RInt(0)>>,
     <<JobSpaces, Rat(1, 2)>>, <<JobBlankLines, RInt(0)>>, <<JobSqlApi, Rat(1, 4)>>}

\* the texts of the documents uploaded to the web application
UploadTexts ==
    {<<>>, SampleLines[1], Chars("Fixed Error handling in 5 APIs"), Chars("Errors and SQL")}

(***************************************************************************)
(* The extractions that read nothing but a text, tabulated over the texts  *)
(* of the model: each is computed once for each text.                      *)
(***************************************************************************)

\* a larger taxonomy: two categories, seven skills; the alias js is listed
\* for JavaScript and, later, for NodeJS
SkillsMany ==
    [kind |-> "data",
     data |-> << <<Skill("Go", <<"golang">>), Skill("Java", <<>>), Skill("Rust", <<>>),
                   Skill("JavaScript", <<"JS">>)>>,
                 <<Skill("SQL", <<>>), Skill("AWS", <<>>), Skill("NodeJS", <<"js">>)>> >>]

\* the environments of the skill gap cases
GapEnvironments ==
    {[verbs |-> VerbsStandard, skills |-> SkillsMany, order |-> "asc"],
     [verbs |-> VerbsStandard, skills |-> SkillsMany, order |-> "desc"],
     [verbs |-> VerbsStandard, skills |-> MissingFile, order |-> "asc"]}

\* the resumes of the skill gap cases
GapTexts ==
    {<<>>, Chars("Plain text"), Chars("Good at Javascript"), Chars("Rust and SQL on AWS")}

\* the job descriptions of the skill gap cases: six and four known skills
\* named, and none
JobSixSkills == Some(Chars("Go Java Rust SQL AWS NodeJS"))
JobFourSkills == Some(Chars("Must have Go, Java, Rust and SQL"))
JobNoSkill == Some(Chars("Team player wanted"))

\* the (job description, cosine similarity) pairs of the skill gap cases
GapJobRequests ==
    {<<None, RInt(0)>>, <<JobSixSkills, Rat(1, 2)>>, <<JobFourSkills, Rat(1, 4)>>,
     <<JobNoSkill, RInt(0)>>}

\* every text the engine is given: the resumes and the job descriptions
AllTexts ==
    ResumeTexts \cup EdgeTexts \cup UploadTexts \cup GapTexts
        \cup {jd[1] : jd \in (JobDescriptions
                                 \cup {JobSpaces, JobBlankLines, JobSixSkills,
                                        JobFourSkills, JobNoSkill}) \ {None}}

\* the patterns of analyzer.py by name
Patterns ==
    [quantifiable |-> QuantifiablePattern,
     leadership |-> LeadershipPattern,
     outcome |-> OutcomePattern,
     section |-> SectionPattern,
     email |-> EmailPattern,
     phone |-> PhonePattern,
     bullet |-> BulletPattern,
     precision |-> PrecisionPattern,
     domain_term |-> DomainTermPattern]

\* re.findall(Patterns[name], text)
FoundIn[text \in AllTexts] == [name \in DOMAIN Patterns |-> FindAll(Patterns[name], text)]
ReFindAll(name, text) == FoundIn[text][name]

\* bool(re.search(Patterns[name], text))
SearchedIn[text \in AllTexts] == [name \in {"email", "phone"} |-> Search(Patterns[name], text)]
ReSearch(name, text) == SearchedIn[text][name]

\* text.lower()
LowerOf[text \in AllTexts] == Lower(text)

\* re.findall(r'\b[A-Za-z-]+\b', text.lower())
WordsOfLower[text \in AllTexts] == FindAll(JdWordPattern, LowerOf[text])

\* [line.strip() for line in text.split('\n') if line.strip()]
LinesOf[text \in AllTexts] == NonEmptyLines(text)

\* len(text.split())
WordCountOf[text \in AllTexts] == Len(SplitWords(text))

(***************************************************************************)
(* config_loader.py: the configuration files and the ConfigLoader cache.   *)
(*                                                                         *)
(* A file is [kind, data]: kind "missing" (the path does not exist),       *)
(* "badyaml" (yaml.safe_load raises YAMLError) or "data".  The data of     *)
(* action_verbs.yaml is a dict from category keys to entries               *)
(* [islist, verbs]; the data of skills.yaml is the list of its categories  *)
(* in file order, each a list of skill entries [name, synonyms].           *)
(***************************************************************************)

\* expected_keys of load_action_verbs
ExpectedKeys == {"impact_verbs", "build_verbs", "support_verbs"}

\* ConfigLoader.load_action_verbs: [raised, value, cache], cache being
\* self._verbs_data after the call
LoadActionVerbs(cache, file) ==
    IF cache # None
    THEN [raised |-> "none", value |-> cache[1], cache |-> cache]
    ELSE IF file.kind = "missing"
    THEN [raised |-> "FileNotFoundError", value |-> None, cache |-> None]
    ELSE IF file.kind = "badyaml"
    THEN [raised |-> "ValueError", value |-> None, cache |-> None]
    ELSE \* self._verbs_data = yaml.safe_load(f), then the validation
         IF ~(ExpectedKeys \subseteq DOMAIN file.data)
            \/ \E k \in DOMAIN file.data : ~file.data[k].islist
         THEN [raised |-> "RuntimeError", value |-> None, cache |-> Some(file.data)]
         ELSE [raised |-> "none", value |-> file.data, cache |-> Some(file.data)]

\* canonical_skills after the entries of one category, in order
RECURSIVE AddSkillEntries(_, _)
AddSkillEntries(mapping, entries) ==
    IF entries = <<>> THEN mapping
    ELSE LET e == Head(entries)
             aliases == {Lower(e.name)} \cup {Lower(e.synonyms[i]) : i \in DOMAIN e.synonyms}
             next == [a \in DOMAIN mapping \cup aliases |->
                        IF a \in aliases THEN e.name ELSE mapping[a]]
         IN  AddSkillEntries(next, Tail(entries))

RECURSIVE AddSkillCategories(_, _)
AddSkillCategories(mapping, categories) ==
    IF categories = <<>> THEN mapping
    ELSE AddSkillCategories(AddSkillEntries(mapping, Head(categories)), Tail(categories))

EmptyDict == <<>>

\* the end of load_skills: canonical_skills is cached and returned
SkillsLoaded(canonical_skills) ==
    [raised |-> "none", value |-> canonical_skills, cache |-> Some(canonical_skills)]

\* ConfigLoader.load_skills: [raised, value, cache], cache being
\* self._skills_mapping after the call
LoadSkills(cache, file) ==
    IF cache # None
    THEN [raised |-> "none", value |-> cache[1], cache |-> cache]
    ELSE IF file.kind = "missing"
    THEN [raised |-> "FileNotFoundError", value |-> None, cache |-> None]
    ELSE IF file.kind = "badyaml"
    THEN [raised |-> "ValueError", value |-> None, cache |-> None]
    ELSE SkillsLoaded(AddSkillCategories(EmptyDict, file.data))

\* code point order of the characters used
CharOrder == <<SP, "#", "+", "-", ".">> \o
             <<"0","1","2","3","4","5","6","7","8","9">> \o UpperChars \o LowerChars
CharCodeOf == [c \in Range(CharOrder) |-> CHOOSE i \in DOMAIN CharOrder : CharOrder[i] = c]
CharCode(c) == CharCodeOf[c]

\* s < t for strings
RECURSIVE StrLess(_, _)
StrLess(s, t) ==
    IF t = <<>> THEN FALSE
    ELSE IF s = <<>> THEN TRUE
    ELSE IF Head(s) = Head(t) THEN StrLess(Tail(s), Tail(t))
    ELSE CharCode(Head(s)) < CharCode(Head(t))

\* sorted(S) for a set of strings
RECURSIVE SortedList(_)
SortedList(S) ==
    IF S = {} THEN <<>>
    ELSE LET m == CHOOSE x \in S : \A y \in S \ {x} : StrLess(x, y)
         IN  <<m>> \o SortedList(S \ {m})

\* get_skills_list once self.load_skills() has answered ld: the sorted list
\* of the canonical names is cached and returned
SkillsListOf(ld) ==
    IF ld.raised # "none"
    THEN [raised |-> ld.raised, value |-> None, mapping |-> ld.cache, list |-> None]
    ELSE LET l == SortedList(Range(ld.value))
         IN  [raised |-> "none", value |-> l, mapping |-> ld.cache, list |-> Some(l)]

\* ConfigLoader.get_skills_list: [raised, value, mapping, list], mapping and
\* list being self._skills_mapping and self._skills_list after the call
GetSkillsList(listCache, mapCache, file) ==
    IF listCache # None
    THEN [raised |-> "none", value |-> listCache[1], mapping |-> mapCache, list |-> listCache]
    ELSE SkillsListOf(LoadSkills(mapCache, file))

(***************************************************************************)
(* parser.py: the signal extractors that read the taxonomy.                *)
(***************************************************************************)

\* tier_weights with the weights of impact and build exchanged
TierWeightExchanged == [impact |-> 2, build |-> 3, support |-> 1]

\* tier_weights of extract_action_verbs
TierWeight == [impact |-> 3, build |-> 2, support |-> 1]
Tiers == DOMAIN TierWeight

\* tier_key.replace('_verbs', '') for the category keys of the model
TierName(key) ==
    CASE key = "impact_verbs" -> "impact"
      [] key = "build_verbs" -> "build"
      [] key = "support_verbs" -> "support"
      [] key = "other_verbs" -> "other"
      [] OTHER -> key

\* clean_word in verbs: list membership, substring for a str
InVerbs(cleanWord, entry) ==
    IF entry.islist THEN cleanWord \in Range(entry.verbs)
    ELSE IsSubstring(cleanWord, entry.verbs[1])

\* the cleaned first three words of a line: words[:3]
FirstThree(line) ==
    LET words == SplitWords(Lower(line))
    IN  [i \in 1..Min(Len(words), 3) |-> CleanWord(words[i])]

\* FirstThree of each non-empty line of a text
FirstThreeOf[text \in AllTexts] ==
    [i \in 1..Len(LinesOf[text]) |-> FirstThree(LinesOf[text][i])]

\* the inner loop over words[:3] for one line (cw: its cleaned first three
\* words) and one category: the first cleaned word that is in verbs, as a
\* list of zero or one word
LineVerb(cw, entry) ==
    LET hits == {i \in DOMAIN cw : InVerbs(cw[i], entry)}
    IN  IF hits = {} THEN <<>>
        ELSE <<cw[CHOOSE i \in hits : \A j \in hits : i <= j]>>

\* found_verbs of one category: one entry per line that has a hit; lines
\* holds the cleaned first three words of each line
RECURSIVE FoundVerbs(_, _)
FoundVerbs(lines, entry) ==
    IF lines = <<>> THEN <<>>
    ELSE LineVerb(Head(lines), entry) \o FoundVerbs(Tail(lines), entry)

RECURSIVE SumOver(_, _)
SumOver(S, f) ==
    IF S = {} THEN 0
    ELSE LET x == CHOOSE y \in S : TRUE IN f[x] + SumOver(S \ {x}, f)

ZeroVerbResult ==
    [impact_verbs |-> {}, build_verbs |-> {}, support_verbs |-> {},
     tier_counts |-> [impact |-> 0, build |-> 0, support |-> 0],
     weighted_score |-> 0, total_verbs |-> 0]

\* extract_action_verbs with total_verbs the number of distinct verbs found
\* instead of the sum of the tier counts
CountVerbsDistinct(text, verbConfig) ==
    LET lines == FirstThreeOf[text]
        found == [k \in DOMAIN verbConfig |-> FoundVerbs(lines, verbConfig[k])]
        counts == [t \in Tiers |->
                     SumOver({k \in DOMAIN verbConfig : TierName(k) = t},
                             [k \in DOMAIN verbConfig |-> Len(found[k])])]
        stored(k) == IF k \in DOMAIN verbConfig THEN Range(found[k]) ELSE {}
    IN  [impact_verbs |-> stored("impact_verbs"),
         build_verbs |-> stored("build_verbs"),
         support_verbs |-> stored("support_verbs"),
         tier_counts |-> counts,
         weighted_score |-> SumOver(Tiers, [t \in Tiers |-> counts[t] * TierWeight[t]]),
         total_verbs |->
             Cardinality(UNION {stored(k) : k \in {"impact_verbs", "build_verbs",
                                                    "support_verbs"}})]

\* the body of extract_action_verbs once verb_config is loaded
CountVerbs(text, verbConfig) ==
    LET lines == FirstThreeOf[text]
        found == [k \in DOMAIN verbConfig |-> FoundVerbs(lines, verbConfig[k])]
        counts == [t \in Tiers |->
                     SumOver({k \in DOMAIN verbConfig : TierName(k) = t},
                             [k \in DOMAIN verbConfig |-> Len(found[k])])]
        stored(k) == IF k \in DOMAIN verbConfig THEN Range(found[k]) ELSE {}
    IN  [impact_verbs |-> stored("impact_verbs"),
         build_verbs |-> stored("build_verbs"),
         support_verbs |-> stored("support_verbs"),
         tier_counts |-> counts,
         weighted_score |-> SumOver(Tiers, [t \in Tiers |-> counts[t] * TierWeight[t]]),
         total_verbs |-> SumOver(Tiers, counts)]

\* extract_action_verbs once config_loader.load_action_verbs() has answered
\* ld; any exception gives the all-zero result
ActionVerbsOf(text, ld) ==
    IF ld.raised # "none"
    THEN [value |-> ZeroVerbResult, cache |-> ld.cache]
    ELSE [value |-> CountVerbs(text, ld.value), cache |-> ld.cache]

\* parser.extract_action_verbs: [value, cache]
ExtractActionVerbsOn(text, cache, file) == ActionVerbsOf(text, LoadActionVerbs(cache, file))

\* extract_skills matching an alias against the whitespace-separated words
\* of the text instead of anywhere in it
SkillsOfWholeWords(lower, ld) ==
    IF ld.raised # "none"
    THEN [value |-> {}, cache |-> ld.cache]
    ELSE [value |-> {ld.value[a] : a \in {b \in DOMAIN ld.value : b \in Range(SplitWords(lower))}},
          cache |-> ld.cache]

\* extract_skills once config_loader.load_skills() has answered ld; the
\* result is the set of the canonical names found, empty on an exception
SkillsOf(lower, ld) ==
    IF ld.raised # "none"
    THEN [value |-> {}, cache |-> ld.cache]
    ELSE [value |-> {ld.value[a] : a \in {b \in DOMAIN ld.value : IsSubstring(b, lower)}},
          cache |-> ld.cache]

\* parser.extract_skills: [value, cache]
ExtractSkillsOn(text, cache, file) == SkillsOf(LowerOf[text], LoadSkills(cache, file))

(***************************************************************************)
(* analyzer.py: the metric calculators.  The collaborators are inputs:     *)
(* sim is the value calculate_similarity returns for (resume, job          *)
(* description), doc is what the Doc of the nlp pipeline yields for the    *)
(* resume: [sents, sent_words, alpha, complex], the number of sentences,   *)
(* the sum of len(sent.text.split()) over them, the number of is_alpha     *)
(* tokens and the number of those longer than 6 characters.  loader is the *)
(* ConfigLoader's cache [verbs, mapping, list], files the two              *)
(* configuration files [verbs, skills], order the iteration order of this  *)
(* process's sets of strings.                                              *)
(***************************************************************************)

\* not job_description
NoJobDescription(jd) == jd = None \/ jd[1] = <<>>

\* list(S) for a set of strings, in this process's iteration order
ListOfSet(S, order) ==
    LET asc == SortedList(S)
    IN  IF order = "asc" THEN asc ELSE [i \in 1..Len(asc) |-> asc[Len(asc) + 1 - i]]

\* analyze_keywords once get_skills_list() has answered sl
KeywordsOf(resumeSkills, jdSkills, loader, order, sl) ==
    LET required == IF sl.raised # "none" THEN {}
                    ELSE {sk \in Range(sl.value) : Lower(sk) \in jdSkills}
    IN  [matched |-> ListOfSet(required \cap resumeSkills, order),
         missing |-> ListOfSet(required \ resumeSkills, order),
         loader |-> [loader EXCEPT !.mapping = sl.mapping, !.list = sl.list]]

\* analyze_keywords: [matched, missing, loader]
AnalyzeKeywords(resumeSkills, jdText, loader, files, order) ==
    KeywordsOf(resumeSkills, Range(WordsOfLower[jdText]), loader, order,
               GetSkillsList(loader.list, loader.mapping, files.skills))

\* analyze_keywords(resume_skills, job_description) for the resume_skills sk
\* that parser.extract_skills has answered
KeywordsOfSkills(sk, jdText, loader, files, order) ==
    AnalyzeKeywords(sk.value, jdText, [loader EXCEPT !.mapping = sk.cache], files, order)

\* resume_skills = parser.extract_skills(resume_text), then
\* analyze_keywords(resume_skills, job_description): [matched, missing, loader]
SkillAnalysis(text, jdText, loader, files, order) ==
    KeywordsOfSkills(ExtractSkillsOn(text, loader.mapping, files.skills), jdText, loader,
                     files, order)

\* _calculate_relevance_score with a job description, once the similarity
\* sim and the keywords kw are there
RelevanceOf(text, jdText, sim, kw) ==
    LET total_jd_skills == Len(kw.matched) + Len(kw.missing)
        keyword_match_rate == Rat(Len(kw.matched), Max(total_jd_skills, 1))
        technical_terms == Len(ReFindAll("domain_term", text))
        jd_technical_terms == Len(ReFindAll("domain_term", jdText))
        domain_alignment ==
            IF jd_technical_terms > 0
            THEN RMin(Rat(technical_terms, Max(jd_technical_terms, 1)), RInt(1))
            ELSE Rat(1, 2)
        relevance_score ==
            RAdd(RAdd(RMul(sim, RInt(40)), RMul(keyword_match_rate, RInt(40))),
                 RMul(domain_alignment, RInt(20)))
    IN  [value |-> [score |-> RMin(RMul(relevance_score, RInt(100)), RInt(100)),
                    components |-> [semantic_similarity |-> sim,
                                    keyword_match_rate |-> keyword_match_rate,
                                    domain_alignment |-> domain_alignment],
                    matched_keywords |-> kw.matched,
                    missing_keywords |-> kw.missing],
         loader |-> kw.loader]

\* _calculate_relevance_score: [value, loader]
CalculateRelevanceScore(text, jd, sim, loader, files, order) ==
    IF NoJobDescription(jd)
    THEN [value |-> [score |-> None,
                     components |-> [semantic_similarity |-> None,
                                     keyword_match_rate |-> None,
                                     domain_alignment |-> None],
                     explanation |-> "No job description provided for relevance analysis"],
          loader |-> loader]
    ELSE RelevanceOf(text, jd[1], sim, SkillAnalysis(text, jd[1], loader, files, order))

\* _calculate_impact_score
CalculateImpactScore(text, action_verb_analysis, lines) ==
    LET quantifiable_count == Len(ReFindAll("quantifiable", text))
        quantifiable_score == Min(quantifiable_count * 8, 100)
        leadership_count == Len(ReFindAll("leadership", text))
        leadership_score == Min(leadership_count * 15, 100)
        action_verb_strength ==
            RMin(RMul(Rat(action_verb_analysis.weighted_score, Max(Len(lines), 1)), RInt(50)),
                 RInt(100))
        outcome_count == Len(ReFindAll("outcome", text))
        outcome_score == Min(outcome_count * 10, 100)
        impact_score ==
            RAdd(RAdd(RMul(action_verb_strength, Rat(4, 10)), Rat(quantifiable_score * 3, 10)),
                 RAdd(Rat(leadership_score * 2, 10), Rat(outcome_score, 10)))
    IN  [score |-> RMin(impact_score, RInt(100)),
         components |-> [quantified_achievements |-> Rat(quantifiable_score, 100),
                         leadership_indicators |-> Rat(leadership_score, 100),
                         action_verb_strength |-> RDiv(action_verb_strength, RInt(100)),
                         measurable_outcomes |-> Rat(outcome_score, 100)],
         details |-> [quantifiable_count |-> quantifiable_count,
                      leadership_count |-> leadership_count,
                      outcome_count |-> outcome_count,
                      action_verb_analysis |-> action_verb_analysis]]

\* hierarchy_score with no default for a resume without bullet lines
HierarchyScoreNoDefault(bullet_indicators) == Min(bullet_indicators * 5, 100)

\* hierarchy_score of _calculate_structure_score
HierarchyScore(bullet_indicators) ==
    IF bullet_indicators > 0 THEN Min(bullet_indicators * 5, 100) ELSE 30

\* _calculate_structure_score
CalculateStructureScore(text) ==
    LET sections == Len(ReFindAll("section", text))
        section_organization == Min(sections * 20, 100)
        has_email == ReSearch("email", text)
        has_phone == ReSearch("phone", text)
        contact_completeness ==
            ((IF has_email THEN 1 ELSE 0) + (IF has_phone THEN 1 ELSE 0)) * 50
        word_count == WordCountOf[text]
        length_score ==
            IF 300 <= word_count /\ word_count <= 800 THEN 100
            ELSE IF (200 <= word_count /\ word_count < 300)
                    \/ (800 < word_count /\ word_count <= 1200) THEN 70
            ELSE 40
        bullet_indicators == Len(ReFindAll("bullet", text))
        hierarchy_score == HierarchyScore(bullet_indicators)
        structure_score ==
            RAdd(RAdd(Rat(section_organization * 3, 10), Rat(contact_completeness * 2, 10)),
                 RAdd(Rat(length_score * 25, 100), Rat(hierarchy_score * 25, 100)))
    IN  [score |-> RMin(structure_score, RInt(100)),
         components |-> [section_organization |-> Rat(section_organization, 100),
                         contact_completeness |-> Rat(contact_completeness, 100),
                         length_appropriateness |-> Rat(length_score, 100),
                         information_hierarchy |-> Rat(hierarchy_score, 100)],
         details |-> [sections_found |-> sections,
                      has_email |-> has_email,
                      has_phone |-> has_phone,
                      word_count |-> word_count,
                      bullet_points |-> bullet_indicators]]

\* the conciseness bands of _calculate_clarity_score
Conciseness(avg_words_per_sentence) ==
    IF RLe(avg_words_per_sentence, RInt(15)) THEN RInt(100)
    ELSE IF RLe(avg_words_per_sentence, RInt(20)) THEN RInt(80)
    ELSE IF RLe(avg_words_per_sentence, RInt(25)) THEN RInt(60)
    ELSE RMax(RInt(0),
              RSub(RInt(100), RMul(RSub(avg_words_per_sentence, RInt(25)), RInt(4))))

\* _calculate_clarity_score
CalculateClarityScore(text, doc) ==
    LET total_words == doc.sent_words
        avg_words_per_sentence ==
            IF doc.sents > 0 THEN Rat(total_words, doc.sents) ELSE RInt(0)
        conciseness_score == Conciseness(avg_words_per_sentence)
        \* len(resume_text.split('.'))
        dot_parts == Cardinality({i \in 1..Len(text) : text[i] = "."}) + 1
        avg_sentence_length == Rat(doc.sents, Max(dot_parts, 1))
        complex_word_ratio == Rat(doc.complex, Max(doc.alpha, 1))
        readability_score ==
            RMax(RInt(0),
                 RSub(RSub(RInt(100), RMul(complex_word_ratio, RInt(100))),
                      RMul(RMax(RInt(0), RSub(avg_sentence_length, Rat(3, 2))), RInt(20))))
        technical_terms == Len(ReFindAll("precision", text))
        precision_score == Min(technical_terms * 3, 100)
        clarity_score ==
            RAdd(RAdd(RMul(conciseness_score, Rat(5, 10)), RMul(readability_score, Rat(3, 10))),
                 Rat(precision_score * 2, 10))
    IN  [score |-> RMin(clarity_score, RInt(100)),
         components |-> [conciseness |-> RDiv(conciseness_score, RInt(100)),
                         readability |-> RDiv(readability_score, RInt(100)),
                         technical_precision |-> Rat(precision_score, 100)],
         details |-> [avg_words_per_sentence |-> avg_words_per_sentence,
                      complex_word_ratio |-> complex_word_ratio,
                      technical_terms_count |-> technical_terms]]

\* the first n elements of a list: l[:n]
Take(l, n) == SubSeq(l, 1, Min(Len(l), n))

\* the fixed terms of the criticality test: 'required', 'must have'
RequiredTerm == Chars("required")
MustHaveTerm == Chars("must have")

\* the loop of _calculate_gaps_score over missing_keywords[:5]:
\* one [skill, critical] per skill, in order
GapSuggestions(missing, jdText) ==
    LET top == Take(missing, 5)
        terms(skill) == {Lower(skill), RequiredTerm, MustHaveTerm}
    IN  [i \in 1..Len(top) |->
            [skill |-> top[i],
             critical |-> \E term \in terms(top[i]) : IsSubstring(term, LowerOf[jdText])]]

\* the early return with the score 0 instead of 100
GapsWithoutJobDescriptionZero ==
    [score |-> RInt(0),
     identified_gaps |-> <<>>,
     critical_missing |-> <<>>,
     improvement_suggestions |-> <<>>,
     explanation |-> "No job description provided for gap analysis"]

\* the early return of _calculate_gaps_score: what it returns when there is
\* no job description
GapsWithoutJobDescription ==
    [score |-> RInt(100),
     identified_gaps |-> <<>>,
     critical_missing |-> <<>>,
     improvement_suggestions |-> <<>>,
     explanation |-> "No job description provided for gap analysis"]

\* the lists without the cut of the suggestions to three
GapListsUncut(sugg, crit) ==
    [critical_missing |-> [i \in 1..Len(crit) |-> crit[i].skill],
     improvement_suggestions |-> sugg]

\* the first n suggestions and the skills of the critical ones
GapLists(sugg, crit) ==
    [critical_missing |-> [i \in 1..Len(crit) |-> crit[i].skill],
     improvement_suggestions |-> Take(sugg, 3)]

\* _calculate_gaps_score with the missing ratio taken over one skill more
\* than expected
GapsOfSmoothed(jdText, kw) ==
    LET total_expected_skills == Len(kw.matched) + Len(kw.missing)
        missing_ratio == Rat(Len(kw.missing), total_expected_skills + 1)
        sugg == GapSuggestions(kw.missing, jdText)
        lists == GapLists(sugg, SelectSeq(sugg, LAMBDA g : g.critical))
        completion_score ==
            RMax(RInt(0), RSub(RInt(100), RMul(missing_ratio, RInt(100))))
    IN  [value |->
           [score |-> completion_score,
            identified_gaps |-> kw.missing,
            critical_missing |-> lists.critical_missing,
            improvement_suggestions |-> lists.improvement_suggestions,
            gap_analysis |->
                [total_skills_identified |-> total_expected_skills,
                 skills_present |-> Len(kw.matched),
                 skills_missing |-> Len(kw.missing),
                 completion_rate |->
                     RMul(Rat(Len(kw.matched), Max(total_expected_skills, 1)),
                          RInt(100))]],
         loader |-> kw.loader]

\* _calculate_gaps_score with a job description, once the keywords kw are
\* there
GapsOf(jdText, kw) ==
    LET total_expected_skills == Len(kw.matched) + Len(kw.missing)
        missing_ratio == Rat(Len(kw.missing), Max(total_expected_skills, 1))
        sugg == GapSuggestions(kw.missing, jdText)
        lists == GapLists(sugg, SelectSeq(sugg, LAMBDA g : g.critical))
        completion_score ==
            RMax(RInt(0), RSub(RInt(100), RMul(missing_ratio, RInt(100))))
    IN  [value |->
           [score |-> completion_score,
            identified_gaps |-> kw.missing,
            critical_missing |-> lists.critical_missing,
            improvement_suggestions |-> lists.improvement_suggestions,
            gap_analysis |->
                [total_skills_identified |-> total_expected_skills,
                 skills_present |-> Len(kw.matched),
                 skills_missing |-> Len(kw.missing),
                 completion_rate |->
                     RMul(Rat(Len(kw.matched), Max(total_expected_skills, 1)),
                          RInt(100))]],
         loader |-> kw.loader]

\* _calculate_gaps_score: [value, loader]
CalculateGapsScore(text, jd, loader, files, order) ==
    IF NoJobDescription(jd)
    THEN [value |-> GapsWithoutJobDescription, loader |-> loader]
    ELSE GapsOf(jd[1], SkillAnalysis(text, jd[1], loader, files, order))

\* the metric weights of _calculate_overall_score, in hundredths:
\* relevance, impact, structure, clarity, gaps
MetricWeights == <<25, 30, 20, 15, 10>>

RECURSIVE RSum(_)
RSum(l) == IF l = <<>> THEN RInt(0) ELSE RAdd(Head(l), RSum(Tail(l)))

\* _calculate_overall_score without the division of the present weights by
\* their sum
CalculateOverallScoreUnnormalized(metric_scores) ==
    LET present == IF metric_scores[1].score # None THEN <<1, 2, 3, 4, 5>>
                   ELSE <<2, 3, 4, 5>>
        scores == [i \in 1..Len(present) |-> metric_scores[present[i]].score]
        weights == [i \in 1..Len(present) |-> Rat(MetricWeights[present[i]], 100)]
        overall_score ==
            RSum([i \in 1..Len(present) |-> RMul(scores[i], weights[i])])
    IN  RMin(overall_score, RInt(100))

\* _calculate_overall_score
CalculateOverallScore(metric_scores) ==
    LET present == IF metric_scores[1].score # None THEN <<1, 2, 3, 4, 5>>
                   ELSE <<2, 3, 4, 5>>
        scores == [i \in 1..Len(present) |-> metric_scores[present[i]].score]
        weights == [i \in 1..Len(present) |-> Rat(MetricWeights[present[i]], 100)]
        total_weight == RSum(weights)
        normalized_weights == [i \in 1..Len(present) |-> RDiv(weights[i], total_weight)]
        overall_score ==
            RSum([i \in 1..Len(present) |-> RMul(scores[i], normalized_weights[i])])
    IN  RMin(overall_score, RInt(100))

\* the dict _calculate_structured_metrics returns, of the five metrics
StructuredResult(relevance, impact, structure, clarity, gaps) ==
    [value |-> [relevance |-> relevance,
                impact |-> impact,
                structure |-> structure,
                clarity |-> clarity,
                gaps |-> gaps.value,
                overall_score |->
                    CalculateOverallScore(<<relevance, impact, structure, clarity,
                                            gaps.value>>),
                metadata |-> [analysis_version |-> "2.0",
                              legacy_compatible |-> TRUE,
                              metrics_count |-> 5]],
     loader |-> gaps.loader]

\* _calculate_structured_metrics from the relevance score on: the impact,
\* structure, clarity and gaps scores; av is the action verb analysis, rel
\* the relevance score with the cache it left
MetricsAfterRelevance(text, jd, doc, files, order, av, rel) ==
    StructuredResult(rel.value,
                     CalculateImpactScore(text, av.value, LinesOf[text]),
                     CalculateStructureScore(text),
                     CalculateClarityScore(text, doc),
                     CalculateGapsScore(text, jd, rel.loader, files, order))

\* _calculate_structured_metrics from the action verb analysis av on
MetricsAfterVerbs(text, jd, sim, doc, loader, files, order, av) ==
    MetricsAfterRelevance(text, jd, doc, files, order, av,
                          CalculateRelevanceScore(text, jd, sim,
                                                  [loader EXCEPT !.verbs = av.cache],
                                                  files, order))

\* _calculate_structured_metrics: [value, loader]
CalculateStructuredMetrics(text, jd, sim, doc, loader, files, order) ==
    MetricsAfterVerbs(text, jd, sim, doc, loader, files, order,
                      ExtractActionVerbsOn(text, loader.verbs, files.verbs))

\* the legacy dict with the weights of the action verb score and of the
\* quantifiable score exchanged
LegacyScoreExchanged(action_verb_score, quantifiable_score, conciseness_score, action_verb_analysis) ==
    [overall_score |->
         RMin(RAdd(RAdd(RMul(action_verb_score, Rat(25, 100)),
                        RMul(quantifiable_score, Rat(6, 10))),
                   RMul(conciseness_score, Rat(15, 100))),
              RInt(100)),
     action_verb_analysis |-> action_verb_analysis,
     quantifiable_score |-> quantifiable_score,
     conciseness_score |-> conciseness_score,
     breakdown |-> [action_verbs |-> action_verb_score,
                    quantifiable |-> quantifiable_score,
                    conciseness |-> conciseness_score]]

\* get_resume_quality_score: final_score and the dict returned, of the three
\* legacy scores
LegacyScore(action_verb_score, quantifiable_score, conciseness_score, action_verb_analysis) ==
    [overall_score |->
         RMin(RAdd(RAdd(RMul(action_verb_score, Rat(6, 10)),
                        RMul(quantifiable_score, Rat(25, 100))),
                   RMul(conciseness_score, Rat(15, 100))),
              RInt(100)),
     action_verb_analysis |-> action_verb_analysis,
     quantifiable_score |-> quantifiable_score,
     conciseness_score |-> conciseness_score,
     breakdown |-> [action_verbs |-> action_verb_score,
                    quantifiable |-> quantifiable_score,
                    conciseness |-> conciseness_score]]

\* action_verb_score of get_resume_quality_score
LegacyActionVerbScore(action_verb_analysis, lines) ==
    IF lines # <<>>
    THEN RMin(RMul(Rat(action_verb_analysis.weighted_score, Len(lines)), RInt(50)),
              RInt(100))
    ELSE RInt(0)

\* get_resume_quality_score once the enhanced scoring has answered
\* enhanced_scores: the mapping of the new scores to the legacy format
LegacyOf(lines, enhanced_scores) ==
    LegacyScore(LegacyActionVerbScore(enhanced_scores.impact.details.action_verb_analysis,
                                      lines),
                RMul(enhanced_scores.impact.components.quantified_achievements, RInt(100)),
                RMul(enhanced_scores.clarity.components.conciseness, RInt(100)),
                enhanced_scores.impact.details.action_verb_analysis)

\* get_resume_quality_score with the cache the enhanced scoring left
LegacyResult(text, enhanced) ==
    [value |-> LegacyOf(LinesOf[text], enhanced.value), loader |-> enhanced.loader]

\* get_resume_quality_score: [value, loader]
GetResumeQualityScore(text, doc, loader, files, order) ==
    LegacyResult(text,
                 CalculateStructuredMetrics(text, None, RInt(0), doc, loader, files, order))

\* get_enhanced_resume_score that does not read legacy_format
GetEnhancedResumeScoreStructured(text, jd, legacy_format, sim, doc, loader, files, order) ==
    CalculateStructuredMetrics(text, jd, sim, doc, loader, files, order)

\* get_enhanced_resume_score: [value, loader]
GetEnhancedResumeScore(text, jd, legacy_format, sim, doc, loader, files, order) ==
    IF legacy_format THEN GetResumeQualityScore(text, doc, loader, files, order)
    ELSE CalculateStructuredMetrics(text, jd, sim, doc, loader, files, order)

(***************************************************************************)
(* The process: one ConfigLoader (the singleton of get_config_loader),     *)
(* the configuration files it reads, and the calls a client makes for one  *)
(* request.                                                                *)
(***************************************************************************)
VARIABLES
    files,         \* [verbs, skills]: the configuration files on disk
    order,         \* the iteration order of this process's sets of strings
    resume_text,   \* the request: the resume,
    job_description, \* the job description (None when not supplied),
    similarity,    \* the similarity the embedding collaborator computes for them,
    doc,           \* and the document the nlp pipeline makes of the resume
    loader,        \* [verbs, mapping, list]: _verbs_data, _skills_mapping, _skills_list
    last,          \* [op, legacy, result]: the last call and what it returned
    first_enhanced, \* what the first get_enhanced_resume_score(legacy_format=False)
                   \* since the start or the last reload_config returned, None
                   \* before it
    log,           \* of the client's direct calls of the ConfigLoader, since its
                   \* construction or the last reload_config: [read, loaded,
                   \* accessed], the files the last call read, the files a call
                   \* has loaded without an error, and the files a call needed
    threads,       \* the threads that access the taxonomy concurrently: for each
                   \* its operation, position, local variables and return value
    heap           \* what these threads share: [instance, loaders], the global
                   \* _config_loader_instance and the caches of the ConfigLoader
                   \* objects constructed

vars == <<files, order, resume_text, job_description, similarity, doc, loader, last,
          first_enhanced, log, threads, heap>>

request == <<files, order, resume_text, job_description, similarity, doc>>

EmptyLoader == [verbs |-> None, mapping |-> None, list |-> None]

\* nothing read, loaded or accessed
EmptyLog == [read |-> {}, loaded |-> {}, accessed |-> {}]

\* no thread, no ConfigLoader yet
NoThreads == <<>>
EmptyHeap == [instance |-> None, loaders |-> <<>>]

\* the process serves one client at a time: no concurrent threads
sequential == <<threads, heap>>

Init ==
    /\ \E env \in Environments :
          /\ files = [verbs |-> env.verbs, skills |-> env.skills]
          /\ order = env.order
    /\ resume_text \in ResumeTexts
    /\ \E jr \in JobRequests : job_description = jr[1] /\ similarity = jr[2]
    /\ doc \in Docs
    /\ loader = EmptyLoader
    /\ last = [op |-> "none", legacy |-> FALSE, result |-> None]
    /\ first_enhanced = None
    /\ log = EmptyLog
    /\ threads = NoThreads
    /\ heap = EmptyHeap

\* a call returns r.value and leaves the ConfigLoader with the cache r.loader
Return(op, legacy_format, r) ==
    /\ last' = [op |-> op, legacy |-> legacy_format, result |-> r.value]
    /\ loader' = r.loader

\* a call of get_enhanced_resume_score(resume_text, job_description, legacy_format)
CallEnhanced(legacy_format) ==
    /\ Return("enhanced", legacy_format,
              GetEnhancedResumeScore(resume_text, job_description, legacy_format,
                                     similarity, doc, loader, files, order))
    /\ first_enhanced' =
          IF legacy_format \/ first_enhanced # None THEN first_enhanced
          ELSE Some(last'.result)
    /\ UNCHANGED <<request, log, sequential>>

\* a call of get_resume_quality_score(resume_text)
CallQualityScore ==
    /\ Return("quality", FALSE, GetResumeQualityScore(resume_text, doc, loader, files, order))
    /\ UNCHANGED <<request, first_enhanced, log, sequential>>

\* the ConfigLoader cache after extract_action_verbs has answered av
VerbsReturned(av) == [value |-> av.value, loader |-> [loader EXCEPT !.verbs = av.cache]]

\* a call of parser.extract_action_verbs(resume_text)
CallExtractActionVerbs ==
    /\ Return("verbs", FALSE,
              VerbsReturned(ExtractActionVerbsOn(resume_text, loader.verbs, files.verbs)))
    /\ UNCHANGED <<request, first_enhanced, log, sequential>>

\* the ConfigLoader cache after extract_skills has answered sk
SkillsReturned(sk) == [value |-> sk.value, loader |-> [loader EXCEPT !.mapping = sk.cache]]

\* a call of parser.extract_skills(resume_text)
CallExtractSkills ==
    /\ Return("skills", FALSE,
              SkillsReturned(ExtractSkillsOn(resume_text, loader.mapping, files.skills)))
    /\ UNCHANGED <<request, first_enhanced, log, sequential>>

\* what analyze_keywords returns: the tuple (matched, missing)
KeywordsReturned(kw) ==
    [value |-> [matched |-> kw.matched, missing |-> kw.missing], loader |-> kw.loader]

\* a call of analyze_keywords(resume_skills, job_description)
CallAnalyzeKeywords(resume_skills) ==
    /\ job_description # None
    /\ Return("keywords", FALSE,
              KeywordsReturned(AnalyzeKeywords(resume_skills, job_description[1], loader,
                                               files, order)))
    /\ UNCHANGED <<request, first_enhanced, log, sequential>>

\* reload_config that leaves self._skills_list as it is
ReloadConfigKeepsList ==
    /\ loader' = [EmptyLoader EXCEPT !.list = loader.list]
    /\ last' = [op |-> "reload", legacy |-> FALSE, result |-> None]
    /\ first_enhanced' = None
    /\ log' = EmptyLog
    /\ UNCHANGED <<request, sequential>>

\* ConfigLoader.reload_config
ReloadConfig ==
    /\ loader' = EmptyLoader
    /\ last' = [op |-> "reload", legacy |-> FALSE, result |-> None]
    /\ first_enhanced' = None
    /\ log' = EmptyLog
    /\ UNCHANGED <<request, sequential>>

\* the resume_skills a client passes to analyze_keywords
ResumeSkillSets == {{}, {Chars("SQL")}}

Next ==
    \/ \E legacy_format \in BOOLEAN : CallEnhanced(legacy_format)
    \/ CallQualityScore
    \/ CallExtractActionVerbs
    \/ CallExtractSkills
    \/ \E resume_skills \in ResumeSkillSets : CallAnalyzeKeywords(resume_skills)
    \/ ReloadConfig

Spec == Init /\ [][Next]_vars

(***************************************************************************)
(* A client that calls the ConfigLoader directly, while the configuration  *)
(* files are edited on disk.                                               *)
(***************************************************************************)

\* a second skills.yaml
SkillsOther == [kind |-> "data", data |-> << <<Skill("Go", <<"golang">>)>> >>]

\* the contents action_verbs.yaml and skills.yaml can have
VerbsFiles == {VerbsStandard, VerbsOverlapping, VerbsIncomplete, MissingFile, UnparsableFile}
SkillsFiles == {SkillsStandard, SkillsOther, SkillsMany, MissingFile, UnparsableFile}

\* the skill_text arguments of find_skill_canonical
SkillTexts == {Chars("PY"), Chars("golang"), Chars("JS"), Chars("Js"), Chars("js")}

\* the files a load reads: open(file) is reached when nothing is cached and
\* the file exists
FilesRead(cache, file, name) == IF cache = None /\ file.kind # "missing" THEN {name} ELSE {}

\* a call of the ConfigLoader that needs the file named needs, reads the
\* files reads, answers r and leaves the cache as cache
LoaderCall(op, needs, r, reads, cache) ==
    /\ loader' = cache
    /\ last' = [op |-> op, legacy |-> FALSE, result |-> r]
    /\ log' = [read |-> reads,
               loaded |-> log.loaded \cup (IF r.raised = "none" THEN reads ELSE {}),
               accessed |-> log.accessed \cup {needs}]
    /\ UNCHANGED <<request, first_enhanced, sequential>>

\* what a loader call answers: the exception it raises or the value it returns
Answer(ld) == [raised |-> ld.raised, value |-> ld.value]

LoadSkillsReturned(ld) ==
    LoaderCall("load_skills", "skills", Answer(ld),
               FilesRead(loader.mapping, files.skills, "skills"),
               [loader EXCEPT !.mapping = ld.cache])

\* a call of ConfigLoader.load_skills
CallLoadSkills == LoadSkillsReturned(LoadSkills(loader.mapping, files.skills))

LoadActionVerbsReturned(ld) ==
    LoaderCall("load_action_verbs", "verbs", Answer(ld),
               FilesRead(loader.verbs, files.verbs, "verbs"),
               [loader EXCEPT !.verbs = ld.cache])

\* a call of ConfigLoader.load_action_verbs
CallLoadActionVerbs == LoadActionVerbsReturned(LoadActionVerbs(loader.verbs, files.verbs))

GetSkillsListReturned(sl) ==
    LoaderCall("get_skills_list", "skills", Answer(sl),
               IF loader.list = None THEN FilesRead(loader.mapping, files.skills, "skills")
               ELSE {},
               [loader EXCEPT !.mapping = sl.mapping, !.list = sl.list])

\* a call of ConfigLoader.get_skills_list
CallGetSkillsList ==
    GetSkillsListReturned(GetSkillsList(loader.list, loader.mapping, files.skills))

\* skills_mapping.get(skill_text) on the answer ld of load_skills
SkillCanonicalExactCase(skill_text, ld) ==
    IF ld.raised # "none" THEN None
    ELSE IF skill_text \in DOMAIN ld.value THEN ld.value[skill_text]
    ELSE None

\* skills_mapping.get(skill_text.lower()) on the answer ld of load_skills
SkillCanonical(skill_text, ld) ==
    IF ld.raised # "none" THEN None
    ELSE IF Lower(skill_text) \in DOMAIN ld.value THEN ld.value[Lower(skill_text)]
    ELSE None

FindSkillCanonicalReturned(skill_text, ld) ==
    LoaderCall("find_skill_canonical", "skills",
               [raised |-> ld.raised, value |-> SkillCanonical(skill_text, ld),
                skill_text |-> skill_text],
               FilesRead(loader.mapping, files.skills, "skills"),
               [loader EXCEPT !.mapping = ld.cache])

\* a call of ConfigLoader.find_skill_canonical(skill_text)
CallFindSkillCanonical(skill_text) ==
    FindSkillCanonicalReturned(skill_text, LoadSkills(loader.mapping, files.skills))

\* the configuration files are replaced on disk
ChangeFiles ==
    /\ \E v \in VerbsFiles, s \in SkillsFiles :
          /\ files' = [verbs |-> v, skills |-> s]
          /\ files' # files
    /\ last' = [op |-> "change", legacy |-> FALSE, result |-> None]
    /\ UNCHANGED <<order, resume_text, job_description, similarity, doc, loader,
                   first_enhanced, log, sequential>>

InitLoader ==
    /\ \E v \in VerbsFiles, s \in SkillsFiles : files = [verbs |-> v, skills |-> s]
    /\ order = "asc"
    /\ resume_text = <<>>
    /\ job_description = None
    /\ similarity = RInt(0)
    /\ doc = [sents |-> 0, sent_words |-> 0, alpha |-> 0, complex |-> 0]
    /\ loader = EmptyLoader
    /\ last = [op |-> "none", legacy |-> FALSE, result |-> None]
    /\ first_enhanced = None
    /\ log = EmptyLog
    /\ threads = NoThreads
    /\ heap = EmptyHeap

NextLoader ==
    \/ CallLoadSkills
    \/ CallLoadActionVerbs
    \/ CallGetSkillsList
    \/ \E skill_text \in SkillTexts : CallFindSkillCanonical(skill_text)
    \/ ReloadConfig
    \/ ChangeFiles

SpecLoader == InitLoader /\ [][NextLoader]_vars

(***************************************************************************)
(* web_app/app.py: the handler of POST /analyze.  The uploaded document    *)
(* holds resume_text; extracted tells whether fitz can open it.            *)
(***************************************************************************)

\* parser.extract_text_from_pdf: the text of the document, or the message
\* made of the exception
ExtractTextFromPdf(extracted, text) ==
    IF extracted THEN text ELSE Chars("Error reading PDF file: cannot open broken document")

\* jd_for_analysis = job_description.strip() if job_description else None;
\* a form without the field gives ''
JdForAnalysis(jd) == IF jd = None \/ jd[1] = <<>> THEN None ELSE Some(Strip(jd[1]))

\* the decimal digits of a natural number
RECURSIVE DecimalDigits(_)
DecimalDigits(n) ==
    LET d == <<"0", "1", "2", "3", "4", "5", "6", "7", "8", "9">>[(n % 10) + 1]
    IN  IF n < 10 THEN <<d>> ELSE DecimalDigits(n \div 10) \o <<d>>

\* round(x * 10000) of a rational x >= 0, a tie going to the even neighbour
RoundedBasisPoints(x) ==
    LET q == (2 * x[1] * 10000 + x[2]) \div (2 * x[2])
        tie == (2 * x[1] * 10000 + x[2]) % (2 * x[2]) = 0
    IN  IF tie /\ q % 2 = 1 THEN q - 1 ELSE q

\* f"{x:.2%}": the number as a percentage with two decimals
FormatPercent(x) ==
    LET n == RoundedBasisPoints(<<Abs(x[1]), x[2]>>)
    IN  (IF x[1] < 0 THEN <<"-">> ELSE <<>>) \o DecimalDigits(n \div 100)
        \o <<".">> \o DecimalDigits((n % 100) \div 10) \o DecimalDigits(n % 10) \o <<"%">>

\* similarity_score of the handler: the semantic similarity of the enhanced
\* analysis when it has a relevance score, otherwise 0
SimilarityScore(relevance) ==
    IF relevance.score # None THEN relevance.components.semantic_similarity ELSE RInt(0)

\* job_match of the handler, saved as Analysis.job_match_score
JobMatch(is_quality_mode, relevance) ==
    IF ~is_quality_mode /\ relevance.score # None THEN Some(relevance.score) ELSE Some(RInt(0))

\* the row of the analyses table that the handler commits: the mode and
\* the job match score, a nullable column
AnalysisRecord(is_quality_mode, relevance) ==
    [mode |-> IF is_quality_mode THEN "quality_check" ELSE "full_analysis",
     job_match_score |-> JobMatch(is_quality_mode, relevance)]

\* the results of the handler from the two analyses, and the record saved
WebResults(jd_for_analysis, enhanced_analysis, legacy_quality_analysis) ==
    [value |-> [status |-> 200,
                mode |-> IF NoJobDescription(jd_for_analysis) THEN "quality_check"
                         ELSE "full_analysis",
                similarity_score |->
                    FormatPercent(SimilarityScore(enhanced_analysis.value.relevance)),
                enhanced_analysis |-> enhanced_analysis.value,
                quality_analysis |-> legacy_quality_analysis.value,
                analysis_record |-> AnalysisRecord(NoJobDescription(jd_for_analysis),
                                                   enhanced_analysis.value.relevance)],
     loader |-> legacy_quality_analysis.loader]

\* legacy_quality_analysis = get_resume_quality_score(resume_text)
WebAfterEnhanced(text, jd_for_analysis, enhanced_analysis) ==
    WebResults(jd_for_analysis, enhanced_analysis,
               GetResumeQualityScore(text, doc, enhanced_analysis.loader, files, order))

\* enhanced_analysis = get_enhanced_resume_score(resume_text, jd_for_analysis)
\* after skills = extract_skills(resume_text)
WebAfterSkills(text, jd_for_analysis, skills) ==
    WebAfterEnhanced(text, jd_for_analysis,
                     GetEnhancedResumeScore(text, jd_for_analysis, FALSE, similarity, doc,
                                            [loader EXCEPT !.mapping = skills.cache],
                                            files, order))

\* the response of analyze_resume to the text extracted
WebResponse(text) ==
    IF IsSubstring(Chars("Error"), text)
    THEN [value |-> [status |-> 500, body |-> "Could not process the uploaded file"],
          loader |-> loader]
    ELSE WebAfterSkills(text, JdForAnalysis(job_description),
                        ExtractSkillsOn(text, loader.mapping, files.skills))

\* what the handler is left with
WebReturn(extracted, r) ==
    /\ last' = [op |-> "analyze_resume", legacy |-> FALSE, extracted |-> extracted,
                result |-> r.value]
    /\ loader' = r.loader

\* POST /analyze with a document and the job description of the form
AnalyzeResume(extracted) ==
    /\ WebReturn(extracted, WebResponse(ExtractTextFromPdf(extracted, resume_text)))
    /\ UNCHANGED <<request, first_enhanced, log, sequential>>

InitWeb ==
    /\ \E env \in Environments :
          /\ files = [verbs |-> env.verbs, skills |-> env.skills]
          /\ order = env.order
    /\ resume_text \in UploadTexts
    /\ \E jr \in JobRequests \cup {<<JobSpaces, Rat(1, 2)>>} :
          job_description = jr[1] /\ similarity = jr[2]
    /\ doc \in Docs
    /\ loader = EmptyLoader
    /\ last = [op |-> "none", legacy |-> FALSE, result |-> None]
    /\ first_enhanced = None
    /\ log = EmptyLog
    /\ threads = NoThreads
    /\ heap = EmptyHeap

NextWeb ==
    \/ \E extracted \in BOOLEAN : AnalyzeResume(extracted)
    \/ ReloadConfig

SpecWeb == InitWeb /\ [][NextWeb]_vars

(***************************************************************************)
(* Threads that access the taxonomy for the first time concurrently.  Each *)
(* thread calls get_config_loader() and then one method of the loader it   *)
(* got.  The code takes no lock; a step of a thread is one read or one     *)
(* write of shared state (the global _config_loader_instance, a cache      *)
(* attribute), and the threads' steps interleave in any order.             *)
(***************************************************************************)

\* the number of threads
NThreads == 2

\* the methods a thread calls
ThreadOps == {"load_action_verbs", "get_skills_list", "load_skills"}

\* the thread t moves to the position pc
Goto(t, pc) == threads' = [threads EXCEPT ![t].pc = pc]

\* the call of the thread t ends: it raises, or returns value
Finish(t, raised, value) ==
    threads' = [threads EXCEPT ![t].pc = "done",
                               ![t].ret = Some([raised |-> raised, value |-> value])]

\* the caches of the ConfigLoader the thread t holds (self)
Self(t) == heap.loaders[threads[t].ld]

\* self.<attribute> = value
SetAttribute(t, attribute, value) ==
    heap' = [heap EXCEPT !.loaders[threads[t].ld][attribute] = value]

\* what the threads' steps leave alone
serving == <<request, loader, last, first_enhanced, log>>

\* get_config_loader: if _config_loader_instance is None
CheckInstance(t) ==
    /\ threads[t].pc = "get_config_loader"
    /\ Goto(t, IF heap.instance = None THEN "construct" ELSE "return_instance")
    /\ UNCHANGED <<heap, serving>>

\* get_config_loader: _config_loader_instance = ConfigLoader()
ConstructLoader(t) ==
    /\ threads[t].pc = "construct"
    /\ heap' = [instance |-> Some(Len(heap.loaders) + 1),
                loaders |-> Append(heap.loaders, EmptyLoader)]
    /\ Goto(t, "return_instance")
    /\ UNCHANGED serving

\* get_config_loader: return _config_loader_instance; the thread then calls
\* its method on the loader returned
ReturnInstance(t) ==
    /\ threads[t].pc = "return_instance"
    /\ threads' = [threads EXCEPT ![t].ld = heap.instance[1], ![t].pc = threads[t].op]
    /\ UNCHANGED <<heap, serving>>

\* what a return of the cache attribute cache hands over: its data, or None
Returned(cache) == IF cache = None THEN None ELSE cache[1]

\* load_action_verbs: if self._verbs_data is None
CheckVerbs(t) ==
    /\ threads[t].pc = "load_action_verbs"
    /\ Goto(t, IF Self(t).verbs = None THEN "read_verbs" ELSE "return_verbs")
    /\ UNCHANGED <<heap, serving>>

\* load_action_verbs: exists(), then self._verbs_data = yaml.safe_load(f)
ReadVerbs(t) ==
    /\ threads[t].pc = "read_verbs"
    /\ IF files.verbs.kind = "missing"
       THEN Finish(t, "FileNotFoundError", None) /\ UNCHANGED heap
       ELSE IF files.verbs.kind = "badyaml"
       THEN Finish(t, "ValueError", None) /\ UNCHANGED heap
       ELSE Goto(t, "validate_verbs") /\ SetAttribute(t, "verbs", Some(files.verbs.data))
    /\ UNCHANGED serving

\* load_action_verbs: the validation of self._verbs_data; the TypeError of
\* a test on None is caught like the ValueError and raised as RuntimeError
ValidateVerbs(t) ==
    /\ threads[t].pc = "validate_verbs"
    /\ IF Self(t).verbs = None
       THEN Finish(t, "RuntimeError", None)
       ELSE IF ~(ExpectedKeys \subseteq DOMAIN Self(t).verbs[1])
               \/ \E k \in DOMAIN Self(t).verbs[1] : ~Self(t).verbs[1][k].islist
       THEN Finish(t, "RuntimeError", None)
       ELSE Goto(t, "return_verbs")
    /\ UNCHANGED <<heap, serving>>

\* load_action_verbs: return self._verbs_data
ReturnVerbs(t) ==
    /\ threads[t].pc = "return_verbs"
    /\ Finish(t, "none", Returned(Self(t).verbs))
    /\ UNCHANGED <<heap, serving>>

\* load_skills has returned the cache attribute mapping to the thread t: to
\* its caller, or to get_skills_list as skills_mapping, where None.values()
\* is an AttributeError
SkillsLoadedBy(t, mapping) ==
    IF threads[t].op = "load_skills" THEN Finish(t, "none", Returned(mapping))
    ELSE IF mapping = None THEN Finish(t, "AttributeError", None)
    ELSE threads' = [threads EXCEPT ![t].pc = "assign_list", ![t].skills_mapping = mapping[1]]

\* load_skills: if self._skills_mapping is None
CheckSkills(t) ==
    /\ threads[t].pc = "load_skills"
    /\ Goto(t, IF Self(t).mapping = None THEN "read_skills" ELSE "return_skills")
    /\ UNCHANGED <<heap, serving>>

\* load_skills: exists(), yaml.safe_load(f), canonical_skills is built,
\* self._skills_mapping = canonical_skills
ReadSkills(t) ==
    /\ threads[t].pc = "read_skills"
    /\ IF files.skills.kind = "missing"
       THEN Finish(t, "FileNotFoundError", None) /\ UNCHANGED heap
       ELSE IF files.skills.kind = "badyaml"
       THEN Finish(t, "ValueError", None) /\ UNCHANGED heap
       ELSE /\ SetAttribute(t, "mapping", Some(AddSkillCategories(EmptyDict, files.skills.data)))
            /\ Goto(t, "return_skills")
    /\ UNCHANGED serving

\* load_skills: return self._skills_mapping
ReturnSkills(t) ==
    /\ threads[t].pc = "return_skills"
    /\ SkillsLoadedBy(t, Self(t).mapping)
    /\ UNCHANGED <<heap, serving>>

\* get_skills_list: if self._skills_list is None: skills_mapping = self.load_skills()
CheckList(t) ==
    /\ threads[t].pc = "get_skills_list"
    /\ Goto(t, IF Self(t).list = None THEN "load_skills" ELSE "return_list")
    /\ UNCHANGED <<heap, serving>>

\* get_skills_list: self._skills_list = list(set(skills_mapping.values()))
AssignList(t) ==
    /\ threads[t].pc = "assign_list"
    /\ SetAttribute(t, "list", Some(ListOfSet(Range(threads[t].skills_mapping), order)))
    /\ Goto(t, "sort_list")
    /\ UNCHANGED serving

\* get_skills_list: self._skills_list.sort(); None.sort() is an
\* AttributeError
SortList(t) ==
    /\ threads[t].pc = "sort_list"
    /\ IF Self(t).list = None
       THEN Finish(t, "AttributeError", None) /\ UNCHANGED heap
       ELSE /\ SetAttribute(t, "list", Some(SortedList(Range(Self(t).list[1]))))
            /\ Goto(t, "return_list")
    /\ UNCHANGED serving

\* get_skills_list: return self._skills_list
ReturnList(t) ==
    /\ threads[t].pc = "return_list"
    /\ Finish(t, "none", Returned(Self(t).list))
    /\ UNCHANGED <<heap, serving>>

\* reload_config: self._skills_mapping = None
ClearMapping(t) ==
    /\ threads[t].pc = "reload_config"
    /\ SetAttribute(t, "mapping", None)
    /\ Goto(t, "clear_verbs")
    /\ UNCHANGED serving

\* reload_config: self._verbs_data = None
ClearVerbs(t) ==
    /\ threads[t].pc = "clear_verbs"
    /\ SetAttribute(t, "verbs", None)
    /\ Goto(t, "clear_list")
    /\ UNCHANGED serving

\* reload_config: self._skills_list = None, and the method returns
ClearList(t) ==
    /\ threads[t].pc = "clear_list"
    /\ SetAttribute(t, "list", None)
    /\ Finish(t, "none", None)
    /\ UNCHANGED serving

InitThreads ==
    /\ \E env \in Environments :
          /\ files = [verbs |-> env.verbs, skills |-> env.skills]
          /\ order = env.order
    /\ resume_text = <<>>
    /\ job_description = None
    /\ similarity = RInt(0)
    /\ doc = [sents |-> 0, sent_words |-> 0, alpha |-> 0, complex |-> 0]
    /\ loader = EmptyLoader
    /\ last = [op |-> "none", legacy |-> FALSE, result |-> None]
    /\ first_enhanced = None
    /\ log = EmptyLog
    /\ \E ops \in [1..NThreads -> ThreadOps] :
          threads = [t \in 1..NThreads |->
                       [op |-> ops[t], pc |-> "get_config_loader", ld |-> 0,
                        skills_mapping |-> None, ret |-> None]]
    /\ heap = EmptyHeap

NextThreads ==
    \E t \in 1..NThreads :
        \/ CheckInstance(t)
        \/ ConstructLoader(t)
        \/ ReturnInstance(t)
        \/ CheckVerbs(t)
        \/ ReadVerbs(t)
        \/ ValidateVerbs(t)
        \/ ReturnVerbs(t)
        \/ CheckSkills(t)
        \/ ReadSkills(t)
        \/ ReturnSkills(t)
        \/ CheckList(t)
        \/ AssignList(t)
        \/ SortList(t)
        \/ ReturnList(t)

SpecThreads == InitThreads /\ [][NextThreads]_vars

(***************************************************************************)
(* Threads that call the methods of one ConfigLoader while others call its *)
(* reload_config.  The loader exists, with nothing cached or with          *)
(* everything cached; the configuration files are valid.                   *)
(***************************************************************************)

\* the caches of a ConfigLoader after its three loads
LoadedLoader(file_verbs, file_skills) ==
    [verbs |-> Some(file_verbs.data),
     mapping |-> Some(AddSkillCategories(EmptyDict, file_skills.data)),
     list |-> Some(SortedList(Range(AddSkillCategories(EmptyDict, file_skills.data))))]

InitReload ==
    /\ files = [verbs |-> VerbsStandard, skills |-> SkillsStandard]
    /\ order \in {"asc", "desc"}
    /\ resume_text = <<>>
    /\ job_description = None
    /\ similarity = RInt(0)
    /\ doc = [sents |-> 0, sent_words |-> 0, alpha |-> 0, complex |-> 0]
    /\ loader = EmptyLoader
    /\ last = [op |-> "none", legacy |-> FALSE, result |-> None]
    /\ first_enhanced = None
    /\ log = EmptyLog
    /\ \E ops \in [1..NThreads -> ThreadOps \cup {"reload_config"}] :
          threads = [t \in 1..NThreads |->
                       [op |-> ops[t], pc |-> ops[t], ld |-> 1,
                        skills_mapping |-> None, ret |-> None]]
    /\ \E cached \in {EmptyLoader, LoadedLoader(VerbsStandard, SkillsStandard)} :
          heap = [instance |-> Some(1), loaders |-> <<cached>>]

NextReload ==
    \E t \in 1..NThreads :
        \/ CheckVerbs(t)
        \/ ReadVerbs(t)
        \/ ValidateVerbs(t)
        \/ ReturnVerbs(t)
        \/ CheckSkills(t)
        \/ ReadSkills(t)
        \/ ReturnSkills(t)
        \/ CheckList(t)
        \/ AssignList(t)
        \/ SortList(t)
        \/ ReturnList(t)
        \/ ClearMapping(t)
        \/ ClearVerbs(t)
        \/ ClearList(t)

SpecReload == InitReload /\ [][NextReload]_vars

\* the same process serving a request of the edge cases
InitEdge ==
    /\ \E env \in Environments :
          /\ files = [verbs |-> env.verbs, skills |-> env.skills]
          /\ order = env.order
    /\ resume_text \in EdgeTexts
    /\ \E jr \in EdgeJobRequests : job_description = jr[1] /\ similarity = jr[2]
    /\ doc \in Docs
    /\ loader = EmptyLoader
    /\ last = [op |-> "none", legacy |-> FALSE, result |-> None]
    /\ first_enhanced = None
    /\ log = EmptyLog
    /\ threads = NoThreads
    /\ heap = EmptyHeap

SpecEdge == InitEdge /\ [][Next]_vars

\* the same process serving a request of the skill gap cases
InitGaps ==
    /\ \E env \in GapEnvironments :
          /\ files = [verbs |-> env.verbs, skills |-> env.skills]
          /\ order = env.order
    /\ resume_text \in GapTexts
    /\ \E jr \in GapJobRequests : job_description = jr[1] /\ similarity = jr[2]
    /\ doc = [sents |-> 2, sent_words |-> 37, alpha |-> 18, complex |-> 4]
    /\ loader = EmptyLoader
    /\ last = [op |-> "none", legacy |-> FALSE, result |-> None]
    /\ first_enhanced = None
    /\ log = EmptyLog
    /\ threads = NoThreads
    /\ heap = EmptyHeap

SpecGaps == InitGaps /\ [][Next]_vars

(***************************************************************************)
(* The properties.  last holds the last call and its result, so a property *)
(* of a call's result is an invariant of the states that follow the call.  *)
(***************************************************************************)

\* C1: each of the five metric scores of get_enhanced_resume_score is a
\* number in [0, 100] or None, and is None exactly when the metric needs a
\* job description (relevance, gaps) and none was supplied.
C1_MetricScoresInRangeOrNone ==
    (last.op = "enhanced" /\ ~last.legacy) =>
        \A m \in {"relevance", "impact", "structure", "clarity", "gaps"} :
            LET s == last.result[m].score
            IN  IF m \in {"relevance", "gaps"} /\ NoJobDescription(job_description)
                THEN s = None
                ELSE s # None /\ RLe(RInt(0), s) /\ RLe(s, RInt(100))

\* C1, the part about the range only: with a job description supplied, the
\* relevance score of get_enhanced_resume_score is a number in [0, 100].
C1_RelevanceInRange ==
    (last.op = "enhanced" /\ ~last.legacy /\ ~NoJobDescription(job_description)) =>
        LET s == last.result.relevance.score
        IN  s # None /\ RLe(RInt(0), s) /\ RLe(s, RInt(100))

\* C2: the overall_score of get_enhanced_resume_score lies in [0, 100] for
\* every similarity in [-1, 1].
C2_OverallScoreInRange ==
    (last.op = "enhanced" /\ ~last.legacy) =>
        /\ RLe(RInt(0), last.result.overall_score)
        /\ RLe(last.result.overall_score, RInt(100))

\* C3: a call of get_enhanced_resume_score returns what the first such call
\* for the same request returned, when the files did not change and there
\* was no reload_config in between.
C3_SameRequestSameResult ==
    (last.op = "enhanced" /\ ~last.legacy /\ first_enhanced # None) =>
        last.result = first_enhanced[1]

\* C4: without a job description overall_score is
\* (0.30*impact + 0.20*structure + 0.15*clarity + 0.10*gaps) / 0.75; with
\* one it is 0.25*relevance + 0.30*impact + 0.20*structure + 0.15*clarity +
\* 0.10*gaps.
C4_OverallScoreWeights ==
    (last.op = "enhanced" /\ ~last.legacy) =>
        LET r == last.result
            W(hundredths, metric) == RMul(Rat(hundredths, 100), r[metric].score)
            four == RAdd(RAdd(W(30, "impact"), W(20, "structure")),
                         RAdd(W(15, "clarity"), W(10, "gaps")))
        IN  IF NoJobDescription(job_description)
            THEN r.overall_score = RDiv(four, Rat(75, 100))
            ELSE r.overall_score = RAdd(W(25, "relevance"), four)

\* C4's case: a scored resume without a job description whose four metrics
\* are not all equal, so that the weights matter
C4_Witness ==
    /\ last.op = "enhanced" /\ ~last.legacy
    /\ job_description = None
    /\ last.result.relevance.score = None
    /\ last.result.impact.score # last.result.structure.score
    /\ last.result.overall_score # RInt(0)

C6_TotalVerbs ==
    last.op = "verbs" =>
        LET c == last.result.tier_counts
        IN  last.result.total_verbs = c.impact + c.build + c.support

\* C6's case: the same verb was counted on two lines
C6_Witness ==
    /\ last.op = "verbs"
    /\ last.result.total_verbs > Cardinality(last.result.impact_verbs
                                            \cup last.result.build_verbs
                                            \cup last.result.support_verbs)

\* C7: extract_action_verbs credits at most one verb for a line: total_verbs
\* never exceeds the number of non-empty lines.
C7_AtMostOneVerbPerLine ==
    last.op = "verbs" => last.result.total_verbs <= Len(LinesOf[resume_text])

\* C8: without a job description the gaps metric has the score 100 and no
\* identified gaps, critical missing skills or suggestions.
C8_GapsWithoutJobDescription ==
    (last.op = "enhanced" /\ ~last.legacy /\ NoJobDescription(job_description)) =>
        /\ last.result.gaps.score = RInt(100)
        /\ last.result.gaps.identified_gaps = <<>>
        /\ last.result.gaps.critical_missing = <<>>
        /\ last.result.gaps.improvement_suggestions = <<>>

\* C8's case: a resume of some lines scored without a job description
C8_Witness ==
    /\ last.op = "enhanced" /\ ~last.legacy
    /\ NoJobDescription(job_description)
    /\ resume_text # <<>>
    /\ last.result.impact.details.action_verb_analysis.total_verbs > 0

C10_LegacyFormatIsQualityScore ==
    [][CallEnhanced(TRUE) =>
          /\ last'.result =
                GetResumeQualityScore(resume_text, doc, loader, files, order).value
          /\ DOMAIN last'.result =
                {"overall_score", "action_verb_analysis", "quantifiable_score",
                 "conciseness_score", "breakdown"}
          /\ DOMAIN last'.result.breakdown = {"action_verbs", "quantifiable", "conciseness"}
      ]_vars

\* C10's case: a legacy-format score of a request that has a job description
C10_Witness ==
    /\ last.op = "enhanced" /\ last.legacy
    /\ ~NoJobDescription(job_description)
    /\ last.result.overall_score # RInt(0)

\* C19: with a job description, relevance.score =
\* (semantic_similarity*0.4 + keyword_match_rate*0.4 + domain_alignment*0.2) * 100
\* of its components, with keyword_match_rate = matched/max(matched+missing, 1)
\* and domain_alignment = min(resume terms / job description terms, 1), or 0.5
\* when the job description has no technical term.
C19_RelevanceFormula ==
    (last.op = "enhanced" /\ ~last.legacy /\ ~NoJobDescription(job_description)) =>
        LET r == last.result.relevance
            c == r.components
            matched == Len(r.matched_keywords)
            missing == Len(r.missing_keywords)
            terms == Len(ReFindAll("domain_term", resume_text))
            jd_terms == Len(ReFindAll("domain_term", job_description[1]))
        IN  /\ c.semantic_similarity = similarity
            /\ c.keyword_match_rate = Rat(matched, Max(matched + missing, 1))
            /\ c.domain_alignment =
                  IF jd_terms = 0 THEN Rat(1, 2) ELSE RMin(Rat(terms, jd_terms), RInt(1))
            /\ r.score =
                  RMul(RAdd(RAdd(RMul(c.semantic_similarity, Rat(4, 10)),
                                 RMul(c.keyword_match_rate, Rat(4, 10))),
                            RMul(c.domain_alignment, Rat(2, 10))),
                       RInt(100))

\* C19, the components only: they are as the claim says; the score is what
\* differs.
C19_RelevanceComponents ==
    (last.op = "enhanced" /\ ~last.legacy /\ ~NoJobDescription(job_description)) =>
        LET r == last.result.relevance
            c == r.components
            matched == Len(r.matched_keywords)
            missing == Len(r.missing_keywords)
            terms == Len(ReFindAll("domain_term", resume_text))
            jd_terms == Len(ReFindAll("domain_term", job_description[1]))
        IN  /\ c.semantic_similarity = similarity
            /\ c.keyword_match_rate = Rat(matched, Max(matched + missing, 1))
            /\ c.domain_alignment =
                  IF jd_terms = 0 THEN Rat(1, 2) ELSE RMin(Rat(terms, jd_terms), RInt(1))

\* C20: for a loaded verb configuration, extract_action_verbs credits, for
\* each non-empty line, the tier of the earliest of the line's first three
\* cleaned tokens that is in a tier's verb list, and nothing else: each tier
\* count is the number of lines whose earliest listed token is a verb of
\* that tier.
C20_EarliestListedToken ==
    (last.op = "verbs" /\ files.verbs \in {VerbsStandard, VerbsOverlapping}) =>
        LET cfg == files.verbs.data
            lines == FirstThreeOf[resume_text]
            Key(t) == CASE t = "impact" -> "impact_verbs"
                        [] t = "build" -> "build_verbs"
                        [] t = "support" -> "support_verbs"
            Listed(w) == \E t \in Tiers : InVerbs(w, cfg[Key(t)])
            Earliest(cw) == {i \in DOMAIN cw : Listed(cw[i]) /\ \A j \in 1..(i-1) : ~Listed(cw[j])}
            Credited(t) == {n \in DOMAIN lines :
                              \E i \in Earliest(lines[n]) : InVerbs(lines[n][i], cfg[Key(t)])}
        IN  \A t \in Tiers : last.result.tier_counts[t] = Cardinality(Credited(t))

\* C18: the hierarchy score of the structure metric is 30 for a resume
\* without a bullet line and min(5*b, 100) for b >= 1 bullet lines, hence
\* 100 from 20 bullet lines on.
C18_HierarchyScore ==
    (last.op = "enhanced" /\ ~last.legacy) =>
        \A b \in 0..MaxBullets :
            resume_text = BulletText(b) =>
                /\ last.result.structure.details.bullet_points = b
                /\ last.result.structure.components.information_hierarchy =
                      Rat(IF b = 0 THEN 30 ELSE Min(5 * b, 100), 100)
                /\ (b >= 20 =>
                      last.result.structure.components.information_hierarchy = RInt(1))

\* C18: 20 bullet lines are scored 100, and so is a resume of more
C18_Witness ==
    /\ last.op = "enhanced" /\ ~last.legacy
    /\ resume_text = BulletText(MaxBullets)
    /\ MaxBullets > 20
    /\ last.result.structure.components.information_hierarchy = RInt(1)

\* C17: for a resume without a non-empty line (empty, or whitespace only)
\* every signal count is 0 (the tier counts, total_verbs and weighted_score
\* of the action verbs, the quantifiable, leadership and outcome counts, the
\* sections, bullet lines and words), and every metric and the overall score
\* is computed: each is a number with a non-zero denominator, or None.
C17_BlankResume ==
    LET IsNumber(x) == x \in Int \X (Nat \ {0})
        NoVerbs(av) == /\ av.tier_counts = [impact |-> 0, build |-> 0, support |-> 0]
                       /\ av.total_verbs = 0
                       /\ av.weighted_score = 0
        r == last.result
    IN  (LinesOf[resume_text] = <<>>) =>
            /\ (last.op = "verbs" => NoVerbs(r))
            /\ (last.op = "quality" \/ (last.op = "enhanced" /\ last.legacy) =>
                  /\ NoVerbs(r.action_verb_analysis)
                  /\ r.quantifiable_score = RInt(0)
                  /\ IsNumber(r.overall_score) /\ IsNumber(r.conciseness_score)
                  /\ IsNumber(r.breakdown.action_verbs))
            /\ (last.op = "enhanced" /\ ~last.legacy =>
                  /\ NoVerbs(r.impact.details.action_verb_analysis)
                  /\ r.impact.details.quantifiable_count = 0
                  /\ r.impact.details.leadership_count = 0
                  /\ r.impact.details.outcome_count = 0
                  /\ r.structure.details.sections_found = 0
                  /\ r.structure.details.bullet_points = 0
                  /\ r.structure.details.word_count = 0
                  /\ \A m \in {"impact", "structure", "clarity"} :
                        /\ IsNumber(r[m].score)
                        /\ \A c \in DOMAIN r[m].components : IsNumber(r[m].components[c])
                  /\ \A m \in {"relevance", "gaps"} :
                        r[m].score = None \/ IsNumber(r[m].score)
                  /\ IsNumber(r.overall_score))

\* C17: a whitespace-only resume has been scored, with a job description
\* and a document that has sentences
C17_Witness ==
    /\ last.op = "enhanced" /\ ~last.legacy
    /\ resume_text = <<SP, NL, "\t", NL>>
    /\ job_description = JobSqlApi
    /\ doc.sents > 0
    /\ last.result.structure.details.word_count = 0
    /\ last.result.relevance.score # None

\* C11: a job description that is None, empty or of whitespace only is
\* treated as absent: get_enhanced_resume_score returns what it returns
\* without a job description, the relevance score and its components None
\* (the similarity of the embedding collaborator is not used) and the gaps
\* those of no job description.
C11_BlankJobDescriptionIsAbsent ==
    (/\ last.op = "enhanced" /\ ~last.legacy
     /\ (job_description = None \/ \A i \in DOMAIN job_description[1] :
                                       IsSpace(job_description[1][i]))) =>
        /\ last.result.relevance.score = None
        /\ \A c \in DOMAIN last.result.relevance.components :
              last.result.relevance.components[c] = None
        /\ last.result.gaps = GapsWithoutJobDescription

\* C11, for None and the empty string only: these are treated as absent
C11_NoJobDescriptionIsAbsent ==
    (last.op = "enhanced" /\ ~last.legacy /\ NoJobDescription(job_description)) =>
        /\ last.result.relevance.score = None
        /\ \A c \in DOMAIN last.result.relevance.components :
              last.result.relevance.components[c] = None
        /\ last.result.gaps = GapsWithoutJobDescription

\* C13: while the taxonomy is unavailable (its file is missing, its YAML
\* does not parse, or the verbs file lacks a required category), on the
\* first call and on every later one, extract_skills returns the empty list,
\* extract_action_verbs the all-zero result and analyze_keywords no matched
\* and no missing skill; none of them raises.
C13_UnavailableTaxonomy ==
    /\ (last.op = "verbs" /\ files.verbs \in {MissingFile, UnparsableFile, VerbsIncomplete}) =>
          last.result = ZeroVerbResult
    /\ (last.op = "skills" /\ files.skills \in {MissingFile, UnparsableFile}) =>
          last.result = {}
    /\ (last.op = "keywords" /\ files.skills \in {MissingFile, UnparsableFile}) =>
          last.result = [matched |-> <<>>, missing |-> <<>>]

\* C13, without the verbs file that lacks a required category: the missing
\* and the unparsable files are answered with the fallback on every call
C13_MissingOrUnparsableTaxonomy ==
    /\ (last.op = "verbs" /\ files.verbs \in {MissingFile, UnparsableFile}) =>
          last.result = ZeroVerbResult
    /\ (last.op = "skills" /\ files.skills \in {MissingFile, UnparsableFile}) =>
          last.result = {}
    /\ (last.op = "keywords" /\ files.skills \in {MissingFile, UnparsableFile}) =>
          last.result = [matched |-> <<>>, missing |-> <<>>]

\* the file a ConfigLoader call needs
FileOf(op) == IF op = "load_action_verbs" THEN "verbs" ELSE "skills"

\* what a ConfigLoader with empty caches answers to the call op from the
\* files on disk
FreshAnswer(op, skill_text) ==
    CASE op = "load_action_verbs" -> Answer(LoadActionVerbs(None, files.verbs))
      [] op = "load_skills" -> Answer(LoadSkills(None, files.skills))
      [] op = "get_skills_list" -> Answer(GetSkillsList(None, None, files.skills))
      [] op = "find_skill_canonical" ->
            [raised |-> LoadSkills(None, files.skills).raised,
             value |-> SkillCanonical(skill_text, LoadSkills(None, files.skills)),
             skill_text |-> skill_text]

\* C12: for every sequence of load_skills, load_action_verbs,
\* get_skills_list, find_skill_canonical and reload_config on a ConfigLoader:
\* no file is read before the first access; once a call has loaded a file
\* without an error, no later call reads that file again until
\* reload_config; and the first access to a file after the construction or
\* a reload_config reads the file as it is on disk then (it raises
\* FileNotFoundError when the file is missing) and answers what a new
\* ConfigLoader answers from that file.
C12_CachedUntilReload ==
    /\ [](log.accessed = {} => log.read = {} /\ loader = EmptyLoader)
    /\ [][last'.op \in {"load_skills", "load_action_verbs", "get_skills_list",
                        "find_skill_canonical"} =>
            LET f == FileOf(last'.op)
            IN  /\ \A g \in log.loaded : g \notin log'.read
                /\ f \notin log.accessed =>
                      /\ log'.read = IF files[f].kind = "missing" THEN {} ELSE {f}
                      /\ last'.result =
                            FreshAnswer(last'.op,
                                        IF last'.op = "find_skill_canonical"
                                        THEN last'.result.skill_text ELSE <<>>)]_vars

\* C12: a file was loaded, replaced on disk by another valid one, and a
\* later call answered from the cache without reading it
C12_Witness ==
    /\ last.op = "get_skills_list"
    /\ last.result.raised = "none"
    /\ "skills" \in log.loaded
    /\ log.read = {}
    /\ files.skills.kind = "data"
    /\ last.result # Answer(GetSkillsList(None, None, files.skills))

\* C14: the loaders report three distinguishable kinds of error, one for
\* each cause: not-found for a missing file, parse-error for malformed YAML,
\* schema-error for required categories that are absent or a category that
\* is not a list; no cause is reported under the kind of another cause or
\* under the generic load error.
C14_ErrorKinds ==
    (/\ last.op \in {"load_skills", "load_action_verbs"}
     /\ (FileOf(last.op) \in log.read \/ last.result.raised # "none")) =>
        LET file == files[FileOf(last.op)]
            raised == last.result.raised
        IN  /\ file.kind = "missing" => raised = "FileNotFoundError"
            /\ file.kind = "badyaml" => raised = "ValueError"
            /\ (/\ last.op = "load_action_verbs"
                /\ file.kind = "data"
                /\ (~(ExpectedKeys \subseteq DOMAIN file.data)
                      \/ \E k \in DOMAIN file.data : ~file.data[k].islist)) =>
                  raised \notin {"none", "FileNotFoundError", "ValueError", "RuntimeError"}

\* C14, the missing and the unparsable file only: each has a kind of its own
C14_NotFoundAndParseErrors ==
    (last.op \in {"load_skills", "load_action_verbs"} /\ last.result.raised # "none") =>
        LET file == files[FileOf(last.op)]
            raised == last.result.raised
        IN  /\ file.kind = "missing" => raised = "FileNotFoundError"
            /\ file.kind = "badyaml" => raised = "ValueError"

\* C16: a request ends in the document-unreadable error exactly when the
\* text extraction failed: a failed extraction is not scored, and a text
\* that was extracted is scored whatever words it contains.
C16_UnreadableIffExtractionFailed ==
    last.op = "analyze_resume" =>
        /\ last.result.status = 500 <=> ~last.extracted
        /\ last.extracted =>
              /\ last.result.status = 200
              /\ last.result.enhanced_analysis.overall_score \in Int \X (Nat \ {0})

\* C16, one direction: a failed extraction ends in the error and is not
\* scored
C16_FailedExtractionIsAnError ==
    (last.op = "analyze_resume" /\ ~last.extracted) =>
        last.result = [status |-> 500, body |-> "Could not process the uploaded file"]

\* C11 at the web handler: a job description of whitespace only is stripped
\* and the request is served in quality-check mode, without a relevance score
C11_WebBlankJobDescription ==
    (/\ last.op = "analyze_resume" /\ last.result.status = 200
     /\ (job_description = None \/ \A i \in DOMAIN job_description[1] :
                                       IsSpace(job_description[1][i]))) =>
        /\ last.result.mode = "quality_check"
        /\ last.result.enhanced_analysis.relevance.score = None

\* what the method op raises or returns on a first access by a single thread
SingleThreaded(op) ==
    CASE op = "load_action_verbs" -> Answer(LoadActionVerbs(None, files.verbs))
      [] op = "load_skills" -> Answer(LoadSkills(None, files.skills))
      [] op = "get_skills_list" -> Answer(GetSkillsList(None, None, files.skills))

\* C15: when the taxonomy is first accessed by two or more threads at once,
\* no thread observes a partially initialised cache: get_config_loader
\* returns a constructed loader, and what load_action_verbs, get_skills_list
\* and load_skills return (or raise) to a thread is what a single-threaded
\* first access returns (or raises).
C15_ConcurrentFirstAccess ==
    \A t \in DOMAIN threads :
        /\ threads[t].pc \notin {"get_config_loader", "construct", "return_instance"} =>
              threads[t].ld \in DOMAIN heap.loaders
        /\ threads[t].pc = "done" => threads[t].ret = Some(SingleThreaded(threads[t].op))

\* C15 for a valid configuration: get_skills_list returns the sorted list to
\* every thread
C15_SortedSkillsList ==
    \A t \in DOMAIN threads :
        (/\ threads[t].pc = "done" /\ threads[t].op = "get_skills_list"
         /\ files.skills = SkillsStandard) =>
            threads[t].ret = Some(SingleThreaded("get_skills_list"))

\* C15, what holds: every thread gets a constructed loader, and load_skills
\* returns the complete mapping or raises as a single thread does
C15_LoaderAndMapping ==
    \A t \in DOMAIN threads :
        /\ threads[t].pc \notin {"get_config_loader", "construct", "return_instance"} =>
              threads[t].ld \in DOMAIN heap.loaders
        /\ (threads[t].pc = "done" /\ threads[t].op = "load_skills") =>
              threads[t].ret = Some(SingleThreaded("load_skills"))

\* the averages of words per sentence compared in C28: up to this many
MaxAverage == 40

\* C28: the conciseness sub-score of the clarity metric never increases when
\* the average number of words per sentence increases: the conciseness
\* returned for the average a of the document is at least the conciseness of
\* every average b >= a.
C28_ConcisenessNeverIncreases ==
    (last.op = "enhanced" /\ ~last.legacy) =>
        LET a == last.result.clarity.details.avg_words_per_sentence
        IN  \A n \in 0..(2 * MaxAverage) :
                RLe(a, Rat(n, 2)) =>
                    RLe(RDiv(Conciseness(Rat(n, 2)), RInt(100)),
                        last.result.clarity.components.conciseness)

\* C28, up to 25 words per sentence: the three bands do not increase
C28_ConcisenessBandsDecrease ==
    (last.op = "enhanced" /\ ~last.legacy) =>
        LET a == last.result.clarity.details.avg_words_per_sentence
        IN  \A n \in 0..50 :
                RLe(a, Rat(n, 2)) =>
                    RLe(RDiv(Conciseness(Rat(n, 2)), RInt(100)),
                        last.result.clarity.components.conciseness)

\* C29: the hierarchy score of the structure metric is at least 30 for every
\* document: a document with bullet lines never gets less than one without.
C29_HierarchyFloor ==
    (last.op = "enhanced" /\ ~last.legacy) =>
        RLe(Rat(30, 100), last.result.structure.components.information_hierarchy)

\* C26: a load that raises leaves the cache unset, and a load never returns
\* data that the validation rejects: after load_action_verbs or load_skills
\* has raised, its cache attribute is None, and what load_action_verbs
\* returns has the three required categories, each a list.
C26_FailedLoadLeavesCacheUnset ==
    /\ (last.op = "load_action_verbs" /\ last.result.raised # "none") => loader.verbs = None
    /\ (last.op = "load_skills" /\ last.result.raised # "none") => loader.mapping = None
    /\ (last.op = "load_action_verbs" /\ last.result.raised = "none") =>
          /\ ExpectedKeys \subseteq DOMAIN last.result.value
          /\ \A k \in DOMAIN last.result.value : last.result.value[k].islist

\* C26 for load_skills, and for load_action_verbs on a missing or an
\* unparsable file: the cache stays unset
C26_SkillsAndUnreadableVerbs ==
    /\ (/\ last.op = "load_action_verbs" /\ last.result.raised # "none"
        /\ files.verbs.kind # "data") => loader.verbs = None
    /\ (last.op = "load_skills" /\ last.result.raised # "none") => loader.mapping = None

\* C25: an absent relevance score stays distinguishable from a computed 0:
\* in quality_check mode the relevance score of the result payload and the
\* job match score of the saved analysis record are None, never the number 0.
C25_AbsentRelevanceStaysNone ==
    (last.op = "analyze_resume" /\ last.result.status = 200
        /\ last.result.mode = "quality_check") =>
        /\ last.result.enhanced_analysis.relevance.score = None
        /\ last.result.analysis_record.job_match_score = None

\* C25, the payload alone: in quality_check mode the relevance score of the
\* enhanced analysis in the payload is None
C25_PayloadRelevanceIsNone ==
    (last.op = "analyze_resume" /\ last.result.status = 200
        /\ last.result.mode = "quality_check") =>
        last.result.enhanced_analysis.relevance.score = None

\* C25, what the code stores instead: in quality_check mode the saved job
\* match score is the number 0 and the payload shows a similarity of 0.00%
C25_QualityModeStoresZero ==
    (last.op = "analyze_resume" /\ last.result.status = 200
        /\ last.result.mode = "quality_check") =>
        /\ last.result.analysis_record.job_match_score = Some(RInt(0))
        /\ last.result.similarity_score = Chars("0.00%")

\* the canonical names of the entries of a skills file
KnownSkills(file) ==
    IF file.kind # "data" THEN {}
    ELSE UNION {{file.data[c][e].name : e \in DOMAIN file.data[c]} : c \in DOMAIN file.data}

\* the canonical names that the text contains: those with an alias, in the
\* mapping loaded from the file, that is a stretch of the lowercased text
SkillsContained(text, file) ==
    LET ld == LoadSkills(None, file)
        lower == Lower(text)
        occurs(a) == \E i \in 1..(Len(lower) + 1) : \E j \in (i - 1)..Len(lower) :
                        SubSeq(lower, i, j) = a
    IN  IF ld.raised # "none" THEN {}
        ELSE {c \in KnownSkills(file) :
                \E a \in DOMAIN ld.value : ld.value[a] = c /\ occurs(a)}

\* the known skills that the job description names: those whose lowercased
\* name is one of its words
SkillsNamed(jdText, file) ==
    {c \in KnownSkills(file) : Lower(c) \in Range(WordsOfLower[jdText])}

C22_Suggestions ==
    (last.op = "enhanced" /\ ~last.legacy /\ ~NoJobDescription(job_description)) =>
        LET gaps == last.result.gaps
            sugg == gaps.improvement_suggestions
            jd == Lower(job_description[1])
        IN  /\ Len(sugg) = Min(Len(gaps.identified_gaps), 3)
            /\ \A i \in DOMAIN sugg :
                  /\ sugg[i].skill = gaps.identified_gaps[i]
                  /\ sugg[i].critical <=>
                        \/ IsSubstring(Lower(sugg[i].skill), jd)
                        \/ IsSubstring(Chars("required"), jd)
                        \/ IsSubstring(Chars("must have"), jd)
                  /\ sugg[i].critical <=> sugg[i].skill \in Range(gaps.critical_missing)

\* C22 happens: more than three skills are missing and three suggestions,
\* critical ones, are returned
C22_Witness ==
    /\ last.op = "enhanced" /\ ~last.legacy /\ ~NoJobDescription(job_description)
    /\ Len(last.result.gaps.identified_gaps) > 3
    /\ Len(last.result.gaps.improvement_suggestions) = 3
    /\ last.result.gaps.improvement_suggestions[1].critical

\* C27: in every gaps result critical_missing holds only skills for which an
\* improvement suggestion is returned, so it is not longer than
\* improvement_suggestions, which has at most three elements.
C27_CriticalAreSuggested ==
    (last.op = "enhanced" /\ ~last.legacy) =>
        LET gaps == last.result.gaps
            sugg == gaps.improvement_suggestions
        IN  /\ Range(gaps.critical_missing) \subseteq {sugg[i].skill : i \in DOMAIN sugg}
            /\ Len(gaps.critical_missing) <= Len(sugg)
            /\ Len(sugg) <= 3

\* C27, what the code keeps: critical_missing holds only skills among the
\* first five missing ones, and at most three suggestions are returned
C27_CriticalAmongFirstFive ==
    (last.op = "enhanced" /\ ~last.legacy) =>
        LET gaps == last.result.gaps
        IN  /\ Range(gaps.critical_missing) \subseteq Range(Take(gaps.identified_gaps, 5))
            /\ Len(gaps.critical_missing) <= 5
            /\ Len(gaps.improvement_suggestions) <= 3

\* C23: extract_skills returns exactly the canonical names that have an
\* alias occurring in the lowercased resume text, wherever in the text and
\* whatever surrounds it.
C23_ExtractSkills ==
    (last.op = "skills" /\ files.skills.kind = "data") =>
        last.result = SkillsContained(resume_text, files.skills)

\* C23 happens: Go and Java are found in 'Good at Javascript', where neither
\* alias is a word of the text
C23_Witness ==
    /\ last.op = "skills"
    /\ resume_text = Chars("Good at Javascript")
    /\ {Chars("Go"), Chars("Java")} \subseteq last.result

\* the entries of a skills file in the order of the file
RECURSIVE EntriesInOrder(_)
EntriesInOrder(categories) ==
    IF categories = <<>> THEN <<>> ELSE Head(categories) \o EntriesInOrder(Tail(categories))

\* the lowercased name and synonyms of an entry
AliasesOfEntry(e) == {Lower(e.name)} \cup {Lower(e.synonyms[i]) : i \in DOMAIN e.synonyms}

\* the mapping in which every lowercased alias of the file has the name of
\* the last entry that lists it
LastEntryWins(file) ==
    LET entries == EntriesInOrder(file.data)
        listing(a) == {i \in DOMAIN entries : a \in AliasesOfEntry(entries[i])}
        last_of(a) == CHOOSE i \in listing(a) : \A j \in listing(a) : j <= i
    IN  [a \in UNION {AliasesOfEntry(entries[i]) : i \in DOMAIN entries} |->
            entries[last_of(a)].name]

\* C24: the lookup of a skill is case-insensitive and single-valued:
\* find_skill_canonical answers with the entry of the lowercased skill_text
\* in the mapping, whatever the casing of skill_text, and the mapping gives
\* every lowercased alias the name of the last entry of the file, in the
\* order of the configuration, that lists it.
C24_CaseInsensitiveLastWins ==
    (last.op = "find_skill_canonical" /\ last.result.raised = "none") =>
        LET mapping == loader.mapping[1]
            alias == Lower(last.result.skill_text)
        IN  /\ \E file \in SkillsFiles : file.kind = "data" /\ mapping = LastEntryWins(file)
            /\ last.result.value = IF alias \in DOMAIN mapping THEN mapping[alias] ELSE None

\* C24 happens: JS and Js, an alias that JavaScript and, later, NodeJS list,
\* are looked up and give NodeJS
C24_Witness ==
    /\ last.op = "find_skill_canonical" /\ last.result.raised = "none"
    /\ last.result.skill_text \in {Chars("JS"), Chars("Js")}
    /\ last.result.value = Chars("NodeJS")

\* C30: when reload_config runs concurrently with load_skills,
\* load_action_verbs or get_skills_list on the same loader and the files are
\* valid, these calls never return None: each returns the data of the files.
C30_NeverNoneUnderReload ==
    \A t \in DOMAIN threads :
        (threads[t].op \in ThreadOps /\ threads[t].pc = "done") =>
            /\ threads[t].ret[1].raised = "none"
            /\ threads[t].ret[1].value # None

\* C30 without a reload: when no thread calls reload_config, every call
\* returns data
C30_DataWithoutReload ==
    (\A u \in DOMAIN threads : threads[u].op # "reload_config") =>
        \A t \in DOMAIN threads :
            threads[t].pc = "done" =>
                /\ threads[t].ret[1].raised = "none"
                /\ threads[t].ret[1].value # None

====
